---- MODULE Spec2Model ----
(***************************************************************************)
(* A model of the WebUSB flashing path of microbit-connection:             *)
(*   MicrobitWebUSBConnectionImpl.flash / flashInternal    (lib/usb.ts)    *)
(*   PartialFlashing.flashAsync / partialFlashAsync / ...                  *)
(*                                        (lib/usb-partial-flashing.ts)    *)
(*   DAPWrapper.reset / softwareReset / waitForHalt / writeBlockCore       *)
(*                                        (lib/usb-device-wrapper.ts)      *)
(*                                                                         *)
(* JavaScript is single threaded: a task runs until its next await.  Each  *)
(* value of pc (the flash() call) and rpc (the reset task that flashAsync  *)
(* starts) names the operation the task is awaiting; an action is the      *)
(* completion of that operation, with its outcome, followed by the code    *)
(* that runs synchronously up to the next await.                           *)
(*                                                                         *)
(* The flash path awaits writeBlockAsync as one operation that settles;    *)
(* what writeBlockCore does with a wait response is modelled on its own    *)
(* (WbSpec), against a scripted transport.                                 *)
(***************************************************************************)
EXTENDS Integers, Sequences, FiniteSets, TLC

\* ------------------------------------------------------------------ bounds
MaxPages == 3          \* pages of the page-aligned image
MaxFullEvents == 2     \* progress events DAPLink emits during one full flash
MaxWaits == 3          \* wait responses a transport script may hold
HaltTicks == 2         \* waitForHalt's timeToWait, in clock ticks
MaxCnt == 2            \* largest cnt passed to readRegRepeat
MaxNonErrors == 2      \* rejections with a value that is no Error, per call
MaxHaltMs == 3         \* largest timeToWait passed explicitly to waitForHalt
LongPollMs == 4000     \* duration of a slow isHalted() round trip
MaxRegArgs == 13       \* most general-purpose register values passed to executeAsync
MaxResetPolls == 3     \* DHCSR reads of one softwareReset that find S_RESET_ST set
MaxReconnects == 2     \* calls of reconnectAsync on one DAPWrapper
MaxDisconnects == 2    \* direct calls of disconnectAsync on one DAPWrapper
MaxImagePages == 3     \* pages of the image handed to partialFlashAsync
MaxCalls == 3          \* calls made through one rateLimitProgress wrapper
MaxTeOps == 4          \* add, remove and dispatch calls on one TrackingEventTarget

\* -------------------------------------------------------- program constants
NumRegWrites == 6      \* writeCoreRegister calls under runFlash's Promise.all
DAP_TRANSFER == 5      \* DapCmd.DAP_TRANSFER, the opcode readRegRepeat sends
MaxRetries == 20       \* readMem32WaitOnError: while (retries < 20)
RetryDelayMs == 20     \* readMem32WaitOnError: setTimeout(resolve, 20)
DefaultTimeToWait == 10000  \* waitForHalt(timeToWait = 10000)
MaxGpRegisters == 12   \* executeAsync: if (registers.length > 12) throw
UicrBase == 268435456  \* partialFlashPageAsync: if (page.targetAddr >= 0x10000000)

RECURSIVE Fact(_)
Fact(n) == IF n <= 1 THEN 1 ELSE n * Fact(n - 1)

\* Progress fractions are held as integers: fraction * Scale.  Every i / n with
\* n <= MaxPages is exact on this grid.
Scale == Fact(MaxPages)

\* minimumProgressIncrement values tried (FlashOptions), in grid units.
MinIncs == {0, Scale \div 2}

\* Fractions a DAPLink full flash may report through EVENT_PROGRESS.
FullSteps == {0, Scale \div 2, Scale}

VARIABLES
  inp,            \* the call's inputs: options.partial, minimumProgressIncrement,
                  \* totalPages (aligned.length) and the set of pages whose checksum differs
  pc,             \* what the flash() call is awaiting
  site,           \* where the current write attempt was started from
  pageIdx,        \* i of partialFlashCoreAsync's loop
  fullProg,       \* last fraction DAPLink reported in the running full flash
  fullEvents,     \* progress events of the running full flash
  elapsed,        \* per task: ticks since the running waitForHalt computed its deadline
  regsPending,    \* writeCoreRegister calls of Promise.all still in flight
  rpc,            \* what the reset task (flashAsync's resetPromise) is awaiting
  rAttempt,       \* 1: first reset(true); 2: the retry after reconnectAsync
  log,            \* the calls made to options.progress, in order
  lastCallValue,  \* rateLimitProgress's closure variable
  writes,         \* write attempts of this call, in order
  postReset,      \* the dapwrapper.reset() that follows the write in partialFlashAsync
  wasPartial,     \* flashInternal's local
  partial,        \* partialFlashAsync's local: "undefined", "true" or "false"
  ret,            \* the value flashAsync is about to return, "none" if none
  pfaRes,         \* how partialFlashAsync settled
  faRes,          \* how flashAsync settled
  flashRes,       \* how flash() settled
  err,            \* the error being thrown, "none" if none
  timedOut,       \* withTimeout rejected with TimeoutError
  linkOpen,       \* device.opened and the transport has claimed an interface
  faults,         \* the operations that have thrown so far
  retryPhase,     \* per task: parity of the polls of the softwareReset loop being run
  flashing,       \* MicrobitWebUSBConnectionImpl.flashing
  wb,             \* state of one writeBlockCore call against a scripted transport
  rr,             \* one readRegRepeat call: its arguments, the response, the outcome
  rm,             \* one readMem32WaitOnError call: retries, lastError, attempts
  wh,             \* one waitForHalt call: the clock, the deadline, the polls
  ex,             \* one executeAsync call: the requests issued to the target
  rs,             \* one reset(halt) call: the requests issued, DEMCR
  dw,             \* a DAPWrapper: its sub-objects, identity fields and the USB device
  pp,             \* one partialFlashAsync call from the checksum table on, page by page
  rl,             \* one rateLimitProgress wrapper and the calls made through it
  te,             \* one TrackingEventTarget: listeners, registrations, activations
  cn,             \* one MicrobitWebUSBConnectionImpl: status, connection, events
  wt,             \* one withTimeout(p, ms) call
  df,             \* one applyDeviceFilters call
  bk,             \* one readBlockAsync or writeBlockAsync call: its chunks and bursts
  ci,             \* a MicrobitWebUSBConnectionImpl with calls and listeners interleaved
  sl              \* the serialdata listeners of a connection and its counter

vars == <<inp, pc, site, pageIdx, fullProg, fullEvents, elapsed, regsPending, rpc,
          rAttempt, log, lastCallValue, writes, postReset, wasPartial, partial, ret, pfaRes,
          faRes, flashRes, err, timedOut, linkOpen, faults, retryPhase, flashing, wb,
          rr, rm, wh, ex, rs, dw, pp, rl, te, cn, wt, df, bk, ci, sl>>

\* The components modelled one at a time, outside the flash path.
unitVars3 == <<bk, ci, sl>>
unitVars2 == <<pp, rl, te, cn, wt, df, unitVars3>>

\* The DAPWrapper operations modelled one call at a time.
unitVars == <<rr, rm, wh, ex, rs, dw, unitVars2>>

progVars == <<log, lastCallValue>>
resetVars == <<rpc, rAttempt>>
resVars == <<wasPartial, pfaRes, faRes, flashRes>>
fullVars == <<fullProg, fullEvents>>

Tasks == {"main", "reset"}

\* ------------------------------------------------------------ pure helpers

\* onlyChanged(aligned, checksums, pageSize): the pages whose locally computed
\* checksum differs from the device's, in their original order.
RECURSIVE SortedSeq(_)
SortedSeq(S) ==
  IF S = {} THEN <<>>
  ELSE LET m == CHOOSE x \in S : \A y \in S : x <= y
       IN <<m>> \o SortedSeq(S \ {m})

onlyChanged(total, differs) == SelectSeq(SortedSeq(1..total), LAMBDA p : p \in differs)

changedPages == onlyChanged(inp.totalPages, inp.differs)

\* partialFlashAsync: `if (aligned.length > totalPages / 2)`.
PreferFullGE(changed, total) == 2 * changed >= total
PreferFull(changed, total) == 2 * changed > total

\* partialFlashAsync: the path run from the catch block of the preferred one.
OtherPathSame(path) == path
OtherPath(path) == IF path = "full" THEN "partial" ELSE "full"

\* partialFlashAsync: `partial = true` after partialFlashCoreAsync,
\* `partial = false` after fullFlashAsync.
ModeOfPreferred(path, st) == IF st = "fallback" THEN path # "partial" ELSE path = "partial"
ModeOf(path, st) == path = "partial"

\* partialFlashCoreAsync: updateProgress(i / pages.length, true).
PartialFractionPercent(i, n) == (100 * i * Scale) \div n
PartialFraction(i, n) == (i * Scale) \div n

\* The limiter's test with > for >=.
ForwardedStrict(undef, value, last, minInc) ==
  undef \/ value = 0 \/ value = Scale \/ value > last + minInc

\* rateLimitProgress: whether the wrapped callback is called.
Forwarded(undef, value, last, minInc) ==
  undef \/ value = 0 \/ value = Scale \/ value >= last + minInc

\* rateLimitProgress: `lastCallValue = value ?? -1`.
NextLast(undef, value) == IF undef THEN -Scale ELSE value

Call(undef, value, isPartial) == [undef |-> undef, value |-> value, partial |-> isPartial]

\* The effect of progress(value, partial) on the log and the limiter.
Progress(undef, value, isPartial) ==
  IF Forwarded(undef, value, lastCallValue, inp.minInc)
  THEN /\ log' = Append(log, Call(undef, value, isPartial))
       /\ lastCallValue' = NextLast(undef, value)
  ELSE UNCHANGED progVars

\* waitForHaltCore(halted, deadline) after a poll that took dt ticks.
WaitForHaltCore(e, halted) ==
  IF e > HaltTicks THEN "timeout" ELSE IF halted THEN "halted" ELSE "poll"

Attempt(path, st) == [path |-> path, site |-> st, res |-> "running"]

SetLast(s, r) == [s EXCEPT ![Len(s)].res = r]

Bool(b) == IF b THEN "true" ELSE "false"

Min(a, b) == IF a < b THEN a ELSE b

\* Ticks one isHalted poll may take.
PollTicks == {1, 2}

Flip(task) == retryPhase' = [retryPhase EXCEPT ![task] = 1 - @]
Unflip(task) == retryPhase' = [retryPhase EXCEPT ![task] = 0]

\* ------------------------------------------------------------------- Init
Inputs ==
  {i \in [partial : BOOLEAN, minInc : MinIncs, totalPages : 1..MaxPages,
          differs : SUBSET (1..MaxPages)] : i.differs \subseteq 1..i.totalPages}

\* No writeBlockCore call under study.
WbIdle == [pc |-> "idle", n |-> 0, waits |-> 0, at |-> "none", tagged |-> FALSE,
           final |-> "OK", addr |-> 0, words |-> <<>>, sent |-> <<>>, sleeps |-> 0,
           res |-> "none"]

\* No call of the operations modelled one at a time.
Idle == [pc |-> "idle"]
Units3Idle == bk = Idle /\ ci = Idle /\ sl = Idle
Units2Idle ==
  /\ pp = Idle /\ rl = Idle /\ te = Idle /\ cn = Idle /\ wt = Idle /\ df = Idle
  /\ Units3Idle
UnitsIdle ==
  /\ rr = Idle /\ rm = Idle /\ wh = Idle /\ ex = Idle /\ rs = Idle /\ dw = Idle
  /\ Units2Idle

\* The state after the connection object is constructed, before flash() is called.
FlashIdle ==
  /\ pc = "idle"
  /\ site = "none"
  /\ pageIdx = 0
  /\ fullProg = 0
  /\ fullEvents = 0
  /\ elapsed = [t \in Tasks |-> 0]
  /\ regsPending = 0
  /\ rpc = "none"
  /\ rAttempt = 1
  /\ log = <<>>
  /\ lastCallValue = -Scale
  /\ writes = <<>>
  /\ postReset = "none"
  /\ wasPartial = FALSE
  /\ partial = "undefined"
  /\ ret = "none"
  /\ pfaRes = "none"
  /\ faRes = "none"
  /\ flashRes = "none"
  /\ err = "none"
  /\ timedOut = FALSE
  /\ linkOpen = FALSE
  /\ faults = {}
  /\ retryPhase = [t \in Tasks |-> 0]
  /\ flashing = FALSE

Init ==
  /\ inp \in Inputs
  /\ FlashIdle
  /\ wb = WbIdle
  /\ UnitsIdle

\* ------------------------------------------------- starting a write path

\* fullFlashAsync up to `await this.dapwrapper.daplink.flash(...)`.
BeginFull(st, w) ==
  /\ writes' = Append(w, Attempt("full", st))
  /\ site' = st
  /\ pc' = "fullFlash"
  /\ fullProg' = 0
  /\ fullEvents' = 0
  /\ UNCHANGED <<progVars, pageIdx, partial, postReset>>

\* partialFlashCoreAsync up to its first await.  With no changed page the loop
\* body never runs: updateProgress(1, true), and partialFlashAsync goes on to
\* `partial = true` and dapwrapper.reset().
BeginPartial(st, w) ==
  LET n == Len(changedPages) IN
  /\ site' = st
  /\ pageIdx' = 0
  /\ UNCHANGED fullVars
  /\ IF n = 0
     THEN /\ Progress(FALSE, Scale, TRUE)
          /\ writes' = Append(w, [Attempt("partial", st) EXCEPT !.res = "ok"])
          /\ partial' = Bool(ModeOf("partial", st))
          /\ postReset' = "running"
          /\ pc' = "prAircr"
     ELSE /\ Progress(FALSE, PartialFraction(0, n), TRUE)
          /\ writes' = Append(w, Attempt("partial", st))
          /\ pc' = "pfWriteFirst"
          /\ UNCHANGED <<partial, postReset>>

BeginPath(path, st, w) ==
  IF path = "full" THEN BeginFull(st, w) ELSE BeginPartial(st, w)

\* The variables BeginPath decides.
pathVars == <<writes, site, pc, fullProg, fullEvents, log, lastCallValue, pageIdx,
              partial, postReset>>

constVars == <<inp, wb, unitVars>>
pathRest == <<writes, site, fullProg, fullEvents, pageIdx, partial, postReset>>
errVars == <<err, faults>>

Fault(tag) == faults' = faults \cup {tag}

\* ----------------------------------------------- flash() and flashInternal

\* flash(): `this.flashing = true`, then flashInternal up to
\* `await this.stopSerialInternal()`.
flash ==
  /\ pc = "idle"
  /\ pc' = "stopSerial"
  /\ flashing' = TRUE
  /\ UNCHANGED <<constVars, pathRest, progVars, errVars, elapsed, regsPending, resetVars,
                 wasPartial, ret, pfaRes, faRes, flashRes, timedOut, linkOpen, retryPhase>>

\* flashInternal: stopSerialInternal() settles; on success connectInternal() is awaited.
StopSerialInternalDone ==
  /\ pc = "stopSerial"
  /\ \E ok \in BOOLEAN :
       IF ok THEN pc' = "connectInternal" /\ UNCHANGED errVars
       ELSE pc' = "enrich" /\ err' = "stopSerial" /\ Fault("stopSerial")
  /\ UNCHANGED <<constVars, pathRest, progVars, elapsed, regsPending, resetVars,
                 wasPartial, ret, pfaRes, faRes, flashRes, timedOut, linkOpen, retryPhase,
                 flashing>>

\* flashInternal: connectInternal() settles; on success dataSource(boardVersion) is awaited.
ConnectInternalDone ==
  /\ pc = "connectInternal"
  /\ \E ok \in BOOLEAN :
       IF ok THEN pc' = "dataSource" /\ linkOpen' = TRUE /\ UNCHANGED errVars
       ELSE /\ pc' = "enrich" /\ err' = "connectInternal" /\ Fault("connectInternal")
            /\ linkOpen' \in BOOLEAN
  /\ UNCHANGED <<constVars, pathRest, progVars, elapsed, regsPending, resetVars,
                 wasPartial, ret, pfaRes, faRes, flashRes, timedOut, retryPhase, flashing>>

\* flashInternal: dataSource() settles.  On success the try block starts:
\* flashAsync (which starts the reset task and awaits withTimeout(resetPromise, 1000))
\* when options.partial, fullFlashAsync otherwise.  A FlashDataError is rethrown by
\* withEnrichedErrors as it is; any other error goes through disconnect(true).
DataSourceDone ==
  /\ pc = "dataSource"
  /\ \E out \in {"ok", "error", "FlashDataError"} :
       CASE out = "ok" /\ inp.partial ->
              /\ pc' = "awaitReset"
              /\ rpc' = "halt"
              /\ UNCHANGED <<pathRest, progVars, errVars, rAttempt, flashRes, flashing>>
         [] out = "ok" /\ ~inp.partial ->
              /\ BeginFull("direct", writes)
              /\ UNCHANGED <<errVars, resetVars, flashRes, flashing>>
         [] out = "error" ->
              /\ pc' = "enrich" /\ err' = "dataSource" /\ Fault("dataSource")
              /\ UNCHANGED <<pathRest, progVars, resetVars, flashRes, flashing>>
         [] out = "FlashDataError" ->
              /\ pc' = "done" /\ err' = "FlashDataError" /\ Fault("dataSource")
              /\ flashRes' = "throw" /\ flashing' = FALSE
              /\ UNCHANGED <<pathRest, progVars, resetVars>>
  /\ UNCHANGED <<constVars, elapsed, regsPending, wasPartial, ret, pfaRes, faRes,
                 timedOut, linkOpen, retryPhase>>

\* ---------------------------------------------------------------- flashAsync

\* The path flashAsync runs from `catch (e) { if (e instanceof TimeoutError)`.
TimeoutFallbackPartial == "partial"
TimeoutFallback == "full"

\* withTimeout(resetPromise, 1000) resolves: "Begin flashing", partialFlashAsync up
\* to the executeAsync of getFlashChecksumsAsync.
ResetResolved ==
  /\ pc = "awaitReset" /\ rpc = "resolved"
  /\ pc' = "csExec"
  /\ UNCHANGED <<constVars, pathRest, progVars, errVars, elapsed, regsPending, resetVars,
                 wasPartial, ret, pfaRes, faRes, flashRes, timedOut, linkOpen, retryPhase,
                 flashing>>

\* flashAsync's catch without the `e instanceof TimeoutError` test: the reset
\* task's own error starts the full flash too.
ResetRejectedFallsBack ==
  /\ pc = "awaitReset" /\ rpc = "rejected"
  /\ BeginPath(TimeoutFallback, "timeout", writes)
  /\ UNCHANGED <<constVars, errVars, elapsed, regsPending, resetVars, wasPartial, ret,
                 pfaRes, faRes, flashRes, timedOut, linkOpen, retryPhase, flashing>>

\* withTimeout(resetPromise, 1000) rejects with the reset task's error, which is
\* no TimeoutError: rethrown, and the finally block awaits disconnectAsync().
ResetRejected ==
  /\ pc = "awaitReset" /\ rpc = "rejected"
  /\ pc' = "faDisconnect"
  /\ err' = "reset"
  /\ UNCHANGED <<constVars, pathRest, progVars, faults, elapsed, regsPending, resetVars,
                 wasPartial, ret, pfaRes, faRes, flashRes, timedOut, linkOpen, retryPhase,
                 flashing>>

\* The 1000 ms timer of withTimeout fires while the reset task has not settled:
\* TimeoutError, caught by flashAsync, which starts fullFlashAsync.  The reset
\* task is not cancelled.
WithTimeoutFires ==
  /\ pc = "awaitReset" /\ rpc \notin {"resolved", "rejected"}
  /\ timedOut' = TRUE
  /\ BeginPath(TimeoutFallback, "timeout", writes)
  /\ UNCHANGED <<constVars, errVars, elapsed, regsPending, resetVars, wasPartial, ret,
                 pfaRes, faRes, flashRes, linkOpen, retryPhase, flashing>>

\* An error thrown inside partialFlashAsync before a write path is chosen: it
\* leaves partialFlashAsync and flashAsync's catch (no TimeoutError) rethrows it.
PfaThrow(tag) ==
  /\ pc' = "faDisconnect"
  /\ err' = tag
  /\ Fault(tag)
  /\ pfaRes' = "throw"
  /\ UNCHANGED <<pathRest, progVars>>

\* getFlashChecksumsAsync: executeAsync up to its waitForHalt (halt, writeBlockAsync
\* of the checksum routine, the core registers, resume) settles.
CsExecDone ==
  /\ pc = "csExec"
  /\ \E ok \in BOOLEAN :
       IF ok
       THEN /\ pc' = "csWaitHalt"
            /\ elapsed' = [elapsed EXCEPT !["main"] = 0]
            /\ UNCHANGED <<pathRest, progVars, errVars, pfaRes>>
       ELSE PfaThrow("checksums") /\ UNCHANGED elapsed
  /\ UNCHANGED <<constVars, regsPending, resetVars, wasPartial, ret, faRes, flashRes,
                 timedOut, linkOpen, retryPhase, flashing>>

\* executeAsync's waitForHalt: one isHalted poll settles.
CsWaitHaltPoll ==
  /\ pc = "csWaitHalt"
  /\ \E out \in {"halted", "running", "throw"}, dt \in PollTicks :
       LET e == Min(elapsed["main"] + dt, HaltTicks + 1)
           r == IF out = "throw" THEN "throw" ELSE WaitForHaltCore(e, out = "halted")
       IN /\ elapsed' = [elapsed EXCEPT !["main"] = IF r = "poll" THEN e ELSE 0]
          /\ CASE r = "halted" ->
                    pc' = "csRead" /\ UNCHANGED <<pathRest, progVars, errVars, pfaRes>>
               [] r = "poll" -> UNCHANGED <<pc, pathRest, progVars, errVars, pfaRes>>
               [] OTHER -> PfaThrow("checksums")
  /\ UNCHANGED <<constVars, regsPending, resetVars, wasPartial, ret, faRes, flashRes,
                 timedOut, linkOpen, retryPhase, flashing>>

\* getFlashChecksumsAsync: readBlockAsync(dataAddr, numPages * 2) settles; then
\* partialFlashAsync awaits writeBlockAsync(loadAddr, flashPageBIN).
CsReadDone ==
  /\ pc = "csRead"
  /\ \E ok \in BOOLEAN :
       IF ok THEN pc' = "writeBin" /\ UNCHANGED <<pathRest, progVars, errVars, pfaRes>>
       ELSE PfaThrow("checksums")
  /\ UNCHANGED <<constVars, elapsed, regsPending, resetVars, wasPartial, ret, faRes,
                 flashRes, timedOut, linkOpen, retryPhase, flashing>>

\* partialFlashAsync: writeBlockAsync(loadAddr, flashPageBIN) settles; on success
\* pageAlignBlocks, onlyChanged and the choice of the preferred write path.
WriteBinDone ==
  /\ pc = "writeBin"
  /\ \E ok \in BOOLEAN :
       IF ok
       THEN /\ BeginPath(IF PreferFull(Len(changedPages), inp.totalPages)
                         THEN "full" ELSE "partial", "preferred", writes)
            /\ UNCHANGED <<errVars, pfaRes>>
       ELSE PfaThrow("writeBin")
  /\ UNCHANGED <<constVars, elapsed, regsPending, resetVars, wasPartial, ret, faRes,
                 flashRes, timedOut, linkOpen, retryPhase, flashing>>

\* ------------------------------------------------- how a write path settles

\* partialFlashAsync: what follows the catch block around dapwrapper.reset().
AfterPostResetStrict(ok) == IF ok THEN "return" ELSE "throw"
AfterPostReset(ok) == "return"

\* A write path run by partialFlashAsync succeeds: `partial = ...`, then
\* `await this.dapwrapper.reset()` (softwareReset's writeMem32 of NVIC_AIRCR).
\* Leaves log and lastCallValue to the caller.
PfaWriteOk(path) ==
  /\ writes' = SetLast(writes, "ok")
  /\ partial' = Bool(ModeOf(path, site))
  /\ postReset' = "running"
  /\ pc' = "prAircr"
  /\ UNCHANGED <<site, fullVars, pageIdx, errVars, pfaRes, ret>>

\* A write path throws.  From the preferred path: the catch block runs the other
\* path.  From the fallback: the error leaves partialFlashAsync.  From flashAsync's
\* own fullFlashAsync (after the timeout): the error leaves flashAsync's catch.
\* From flashInternal's fullFlashAsync: the finally block calls progress(undefined).
WriteFailed(path) ==
  /\ Fault(path)
  /\ CASE site = "preferred" ->
            /\ BeginPath(OtherPath(path), "fallback", SetLast(writes, "fail"))
            /\ UNCHANGED <<err, pfaRes, ret>>
       [] site = "fallback" ->
            /\ writes' = SetLast(writes, "fail")
            /\ err' = path
            /\ pfaRes' = "throw"
            /\ pc' = "faDisconnect"
            /\ UNCHANGED <<site, fullVars, pageIdx, partial, postReset, progVars, ret>>
       [] site = "timeout" ->
            /\ writes' = SetLast(writes, "fail")
            /\ err' = path
            /\ pc' = "faDisconnect"
            /\ UNCHANGED <<site, fullVars, pageIdx, partial, postReset, progVars, pfaRes,
                           ret>>
       [] OTHER ->
            /\ writes' = SetLast(writes, "fail")
            /\ err' = path
            /\ Progress(TRUE, 0, wasPartial)
            /\ pc' = "finallyTail"
            /\ UNCHANGED <<site, fullVars, pageIdx, partial, postReset, pfaRes, ret>>

\* ------------------------------------------------------------ fullFlashAsync

\* DAPLink emits EVENT_PROGRESS during daplink.flash: fullFlashProgress calls
\* updateProgress(progress, false).
FullFlashProgress ==
  /\ pc = "fullFlash"
  /\ fullEvents < MaxFullEvents
  /\ \E v \in FullSteps :
       /\ v >= fullProg
       /\ fullProg' = v
       /\ Progress(FALSE, v, FALSE)
  /\ fullEvents' = fullEvents + 1
  /\ UNCHANGED <<constVars, pc, writes, site, pageIdx, partial, postReset, errVars,
                 elapsed, regsPending, resetVars, wasPartial, ret, pfaRes, faRes, flashRes,
                 timedOut, linkOpen, retryPhase, flashing>>

\* daplink.flash (with transport.open and the conversion before it) settles.
FullFlashDone ==
  /\ pc = "fullFlash"
  /\ \E ok \in BOOLEAN :
       CASE ~ok -> WriteFailed("full")
         [] ok /\ site \in {"preferred", "fallback"} ->
              PfaWriteOk("full") /\ UNCHANGED progVars
         [] ok /\ site = "timeout" ->
              /\ writes' = SetLast(writes, "ok")
              /\ ret' = "false"
              /\ pc' = "faDisconnect"
              /\ UNCHANGED <<site, fullVars, pageIdx, partial, postReset, progVars,
                             errVars, pfaRes>>
         [] OTHER ->
              /\ writes' = SetLast(writes, "ok")
              /\ Progress(TRUE, 0, wasPartial)
              /\ pc' = "finallyTail"
              /\ UNCHANGED <<site, fullVars, pageIdx, partial, postReset, errVars,
                             pfaRes, ret>>
  /\ UNCHANGED <<constVars, elapsed, regsPending, resetVars, wasPartial, faRes, flashRes,
                 timedOut, linkOpen, retryPhase, flashing>>

\* ----------------------------------- partialFlashCoreAsync, one page at a time

\* partialFlashPageAsync, i === 0: writeBlockAsync(thisAddr, u32data) settles;
\* then runFlash awaits cortexM.halt(true).
PfWriteFirstDone ==
  /\ pc = "pfWriteFirst"
  /\ \E ok \in BOOLEAN :
       IF ok
       THEN pc' = "pfHalt" /\ UNCHANGED <<pathRest, progVars, errVars, pfaRes, ret>>
       ELSE WriteFailed("partial")
  /\ UNCHANGED <<constVars, elapsed, regsPending, resetVars, wasPartial, faRes, flashRes,
                 timedOut, linkOpen, retryPhase, flashing>>

\* runFlash: halt(true) settles; Promise.all then starts the six writeCoreRegister
\* calls at once.
PfHaltDone ==
  /\ pc = "pfHalt"
  /\ \E ok \in BOOLEAN :
       IF ok
       THEN /\ pc' = "pfRegs"
            /\ regsPending' = regsPending + NumRegWrites
            /\ UNCHANGED <<pathRest, progVars, errVars, pfaRes, ret>>
       ELSE WriteFailed("partial") /\ UNCHANGED regsPending
  /\ UNCHANGED <<constVars, elapsed, resetVars, wasPartial, faRes, flashRes, timedOut,
                 linkOpen, retryPhase, flashing>>

\* One writeCoreRegister of the Promise.all settles.  Promise.all rejects on the
\* first rejection, while the other calls stay in flight; it resolves when all
\* have resolved, and runFlash then awaits cortexM.resume(false).
RegWriteSettles ==
  /\ regsPending > 0
  /\ regsPending' = regsPending - 1
  /\ \E ok \in BOOLEAN :
       CASE pc # "pfRegs" ->
              UNCHANGED <<pc, pathRest, progVars, errVars, pfaRes, ret>>
         [] pc = "pfRegs" /\ ~ok -> WriteFailed("partial")
         [] pc = "pfRegs" /\ ok /\ regsPending > 1 ->
              UNCHANGED <<pc, pathRest, progVars, errVars, pfaRes, ret>>
         [] OTHER ->
              pc' = "pfResume" /\ UNCHANGED <<pathRest, progVars, errVars, pfaRes, ret>>
  /\ UNCHANGED <<constVars, elapsed, resetVars, wasPartial, faRes, flashRes, timedOut,
                 linkOpen, retryPhase, flashing>>

\* runFlash: resume(false) settles; partialFlashPageAsync then uploads the next
\* page if there is one, and otherwise awaits waitForHalt().
PfResumeDone ==
  /\ pc = "pfResume"
  /\ \E ok \in BOOLEAN :
       IF ok
       THEN /\ IF pageIdx + 1 < Len(changedPages)
               THEN pc' = "pfWriteNext" /\ UNCHANGED elapsed
               ELSE pc' = "pfWaitHalt" /\ elapsed' = [elapsed EXCEPT !["main"] = 0]
            /\ UNCHANGED <<pathRest, progVars, errVars, pfaRes, ret>>
       ELSE WriteFailed("partial") /\ UNCHANGED elapsed
  /\ UNCHANGED <<constVars, regsPending, resetVars, wasPartial, faRes, flashRes,
                 timedOut, linkOpen, retryPhase, flashing>>

\* partialFlashPageAsync: writeBlockAsync(nextAddr, buf) settles; then waitForHalt().
PfWriteNextDone ==
  /\ pc = "pfWriteNext"
  /\ \E ok \in BOOLEAN :
       IF ok
       THEN /\ pc' = "pfWaitHalt"
            /\ elapsed' = [elapsed EXCEPT !["main"] = 0]
            /\ UNCHANGED <<pathRest, progVars, errVars, pfaRes, ret>>
       ELSE WriteFailed("partial") /\ UNCHANGED elapsed
  /\ UNCHANGED <<constVars, regsPending, resetVars, wasPartial, faRes, flashRes,
                 timedOut, linkOpen, retryPhase, flashing>>

\* partialFlashPageAsync's waitForHalt: one isHalted poll settles.  When the page
\* is done the loop goes on: updateProgress(i / pages.length, true) and runFlash
\* for the next page, or updateProgress(1, true) after the last one.
PfWaitHaltPoll ==
  /\ pc = "pfWaitHalt"
  /\ \E out \in {"halted", "running", "throw"}, dt \in PollTicks :
       LET e == Min(elapsed["main"] + dt, HaltTicks + 1)
           r == IF out = "throw" THEN "throw" ELSE WaitForHaltCore(e, out = "halted")
           n == Len(changedPages)
       IN /\ elapsed' = [elapsed EXCEPT !["main"] = IF r = "poll" THEN e ELSE 0]
          /\ CASE r = "halted" /\ pageIdx + 1 < n ->
                    /\ pageIdx' = pageIdx + 1
                    /\ Progress(FALSE, PartialFraction(pageIdx + 1, n), TRUE)
                    /\ pc' = "pfHalt"
                    /\ UNCHANGED <<writes, site, fullVars, partial, postReset, errVars,
                                   pfaRes, ret>>
               [] r = "halted" /\ pageIdx + 1 >= n ->
                    /\ Progress(FALSE, Scale, TRUE)
                    /\ PfaWriteOk("partial")
               [] r = "poll" ->
                    UNCHANGED <<pc, pathRest, progVars, errVars, pfaRes, ret>>
               [] OTHER -> WriteFailed("partial")
  /\ UNCHANGED <<constVars, regsPending, resetVars, wasPartial, faRes, flashRes,
                 timedOut, linkOpen, retryPhase, flashing>>

\* ------------------------------ the reset that follows partialFlashAsync's write

\* dapwrapper.reset() has settled: the catch block swallows its error, and
\* partialFlashAsync returns `partial`; flashAsync's finally awaits disconnectAsync().
PostResetDone(ok) ==
  /\ postReset' = IF ok THEN "ok" ELSE "failed"
  /\ faults' = IF ok THEN faults ELSE faults \cup {"postReset"}
  /\ pc' = "faDisconnect"
  /\ IF AfterPostReset(ok) = "return"
     THEN pfaRes' = partial /\ ret' = partial /\ UNCHANGED err
     ELSE pfaRes' = "throw" /\ err' = "postReset" /\ UNCHANGED ret
  /\ Unflip("main")
  /\ UNCHANGED <<writes, site, fullVars, pageIdx, partial, progVars>>

\* softwareReset: writeMem32(NVIC_AIRCR, ...) settles; then DHCSR is read.
PrAircrDone ==
  /\ pc = "prAircr"
  /\ \E ok \in BOOLEAN :
       IF ok
       THEN /\ pc' = "prPoll"
            /\ UNCHANGED <<pathRest, progVars, errVars, pfaRes, ret, retryPhase>>
       ELSE PostResetDone(FALSE)
  /\ UNCHANGED <<constVars, elapsed, regsPending, resetVars, wasPartial, faRes, flashRes,
                 timedOut, linkOpen, flashing>>

\* softwareReset: a readMem32(DHCSR) settles; the loop reads again while
\* S_RESET_ST is set.
PrPoll ==
  /\ pc = "prPoll"
  /\ \E out \in {"clear", "set", "throw"} :
       CASE out = "clear" -> PostResetDone(TRUE)
         [] out = "throw" -> PostResetDone(FALSE)
         [] out = "set" ->
              Flip("main") /\ UNCHANGED <<pc, pathRest, progVars, errVars, pfaRes, ret>>
  /\ UNCHANGED <<constVars, elapsed, regsPending, resetVars, wasPartial, faRes, flashRes,
                 timedOut, linkOpen, flashing>>

\* ------------------------------------------ leaving flashAsync and flashInternal

\* DAPWrapper.disconnectAsync: daplink.disconnect() only if the device is opened
\* and an interface is claimed.
disconnectAsync(open) == FALSE

\* flashAsync's finally: disconnectAsync() settles and flashAsync settles; an
\* error daplink.disconnect() throws replaces the value returned or the error
\* thrown so far.  Back in flashInternal `wasPartial = ...` if flashAsync
\* returned, and the finally block calls progress(undefined, wasPartial) and
\* then awaits the disconnect or the reinstating of serial.
FaDisconnectDone ==
  /\ pc = "faDisconnect"
  /\ \E ok \in BOOLEAN :
       LET e == IF ok \/ ~linkOpen THEN err ELSE "disconnect" IN
       /\ linkOpen' = IF ok THEN disconnectAsync(linkOpen) ELSE linkOpen
       /\ err' = e
       /\ faults' = IF e = err THEN faults ELSE faults \cup {"disconnect"}
       /\ faRes' = IF e = "none" THEN ret ELSE "throw"
       /\ wasPartial' = (e = "none" /\ ret = "true")
  /\ Progress(TRUE, 0, wasPartial')
  /\ pc' = "finallyTail"
  /\ UNCHANGED <<constVars, pathRest, elapsed, regsPending, resetVars, ret,
                 pfaRes, flashRes, timedOut, retryPhase, flashing>>

\* flashInternal's finally: disconnect() or daplink.connect() and
\* startSerialInternal() settle.  flashInternal then settles; flash() dispatches
\* the flash event and clears `flashing`, or withEnrichedErrors catches the error.
FinallyTailDone ==
  /\ pc = "finallyTail"
  /\ \E ok \in BOOLEAN :
       CASE ok /\ err = "none" ->
              /\ pc' = "done" /\ flashRes' = "ok" /\ flashing' = FALSE
              /\ UNCHANGED errVars
         [] ok /\ err # "none" ->
              pc' = "enrich" /\ UNCHANGED <<errVars, flashRes, flashing>>
         [] OTHER ->
              /\ pc' = "enrich" /\ err' = "finallyTail" /\ Fault("finallyTail")
              /\ UNCHANGED <<flashRes, flashing>>
  /\ UNCHANGED <<constVars, pathRest, progVars, elapsed, regsPending, resetVars,
                 wasPartial, ret, pfaRes, faRes, timedOut, linkOpen, retryPhase>>

\* withEnrichedErrors: `await this.disconnect(true)` settles (it never throws),
\* the enriched error is thrown and flash()'s finally clears `flashing`.
EnrichDone ==
  /\ pc = "enrich"
  /\ pc' = "done"
  /\ flashRes' = "throw"
  /\ flashing' = FALSE
  /\ linkOpen' = disconnectAsync(linkOpen)
  /\ UNCHANGED <<constVars, pathRest, progVars, errVars, elapsed, regsPending, resetVars,
                 wasPartial, ret, pfaRes, faRes, timedOut, retryPhase>>

\* ------------------------------------------- the reset task of flashAsync

\* reset(true) in order: halt(true), readMem32(DEMCR), writeMem32(DEMCR, ...),
\* softwareReset (writeMem32 of NVIC_AIRCR, then the DHCSR poll), waitForHalt,
\* writeMem32(DEMCR, demcr).
\* reset(true) with the disarming write issued before waitForHalt.
ResetNextOpEarlyDisarm(op) ==
  CASE op = "halt" -> "readDemcr"
    [] op = "readDemcr" -> "armDemcr"
    [] op = "armDemcr" -> "aircr"
    [] op = "aircr" -> "pollReset"
    [] op = "pollReset" -> "disarm"
    [] op = "disarm" -> "waitHalt"
    [] OTHER -> "resolved"

ResetNextOp(op) ==
  CASE op = "halt" -> "readDemcr"
    [] op = "readDemcr" -> "armDemcr"
    [] op = "armDemcr" -> "aircr"
    [] op = "aircr" -> "pollReset"
    [] op = "pollReset" -> "waitHalt"
    [] op = "waitHalt" -> "disarm"
    [] OTHER -> "resolved"

\* reset(true) throws: the first time the catch block awaits reconnectAsync();
\* the second time the reset task rejects.
ResetThrow ==
  /\ rpc' = IF rAttempt = 1 THEN "reconnect" ELSE "rejected"
  /\ Fault("reset")
  /\ UNCHANGED rAttempt

resetRest == <<constVars, pc, pathRest, progVars, err, regsPending, wasPartial, ret,
               pfaRes, faRes, flashRes, timedOut, flashing>>

\* One register or memory operation of reset(true) settles.
ResetStep ==
  /\ rpc \in {"halt", "readDemcr", "armDemcr", "aircr", "disarm"}
  /\ \E ok \in BOOLEAN :
       IF ok THEN rpc' = ResetNextOp(rpc) /\ UNCHANGED <<rAttempt, faults>>
       ELSE ResetThrow
  /\ UNCHANGED <<resetRest, elapsed, linkOpen, retryPhase>>

\* softwareReset: a readMem32(DHCSR) settles.
ResetPoll ==
  /\ rpc = "pollReset"
  /\ \E out \in {"clear", "set", "throw"} :
       CASE out = "clear" ->
              /\ rpc' = ResetNextOp(rpc) /\ Unflip("reset")
              /\ elapsed' = [elapsed EXCEPT !["reset"] = 0]
              /\ UNCHANGED <<rAttempt, faults>>
         [] out = "throw" -> ResetThrow /\ Unflip("reset") /\ UNCHANGED elapsed
         [] out = "set" -> Flip("reset") /\ UNCHANGED <<resetVars, faults, elapsed>>
  /\ UNCHANGED <<resetRest, linkOpen>>

\* reset(true)'s waitForHalt: one isHalted poll settles.
ResetWaitHaltPoll ==
  /\ rpc = "waitHalt"
  /\ \E out \in {"halted", "running", "throw"}, dt \in PollTicks :
       LET e == Min(elapsed["reset"] + dt, HaltTicks + 1)
           r == IF out = "throw" THEN "throw" ELSE WaitForHaltCore(e, out = "halted")
       IN /\ elapsed' = [elapsed EXCEPT !["reset"] = IF r = "poll" THEN e ELSE 0]
          /\ CASE r = "halted" -> rpc' = ResetNextOp(rpc) /\ UNCHANGED <<rAttempt, faults>>
               [] r = "poll" -> UNCHANGED <<resetVars, faults>>
               [] OTHER -> ResetThrow
  /\ UNCHANGED <<resetRest, linkOpen, retryPhase>>

\* "Retrying reset": reconnectAsync() settles; on success reset(true) is run again.
ResetReconnectDone ==
  /\ rpc = "reconnect"
  /\ \E ok \in BOOLEAN :
       IF ok THEN rpc' = "halt" /\ rAttempt' = 2 /\ linkOpen' = TRUE /\ UNCHANGED faults
       ELSE rpc' = "rejected" /\ linkOpen' = FALSE /\ Fault("reset") /\ UNCHANGED rAttempt
  /\ UNCHANGED <<resetRest, elapsed, retryPhase>>

\* ------------------------------------------------------------ specification
MainNext ==
  \/ flash
  \/ StopSerialInternalDone
  \/ ConnectInternalDone
  \/ DataSourceDone
  \/ ResetResolved
  \/ ResetRejected
  \/ CsExecDone
  \/ CsWaitHaltPoll
  \/ CsReadDone
  \/ WriteBinDone
  \/ FullFlashDone
  \/ PfWriteFirstDone
  \/ PfHaltDone
  \/ PfResumeDone
  \/ PfWriteNextDone
  \/ PfWaitHaltPoll
  \/ PrAircrDone
  \/ PrPoll
  \/ FaDisconnectDone
  \/ FinallyTailDone
  \/ EnrichDone

ResetTaskNext ==
  \/ ResetStep
  \/ ResetPoll
  \/ ResetWaitHaltPoll
  \/ ResetReconnectDone

Next ==
  \/ MainNext
  \/ ResetTaskNext
  \/ WithTimeoutFires
  \/ FullFlashProgress
  \/ RegWriteSettles

Spec == Init /\ [][Next]_vars

\* LiveSpec: the event loop runs every continuation that is ready (each task's
\* next step, a settled register write, the expired timer).  Which outcome an
\* operation has is left to the device.
LiveSpec ==
  /\ Init /\ [][Next]_vars
  /\ WF_vars(MainNext)
  /\ WF_vars(ResetTaskNext)
  /\ WF_vars(WithTimeoutFires)
  /\ WF_vars(RegWriteSettles)

\* ----------------------------------------------------------------------------
\* DAPWrapper.writeBlockCore(addr, words) against a scripted transport: the
\* transport answers the request named wb.at with "wait" wb.n times, and the
\* block transfer finally with wb.final.
\* ----------------------------------------------------------------------------
coreVars == <<inp, pc, site, pageIdx, fullProg, fullEvents, elapsed, regsPending, rpc,
              rAttempt, log, lastCallValue, writes, postReset, wasPartial, partial, ret,
              pfaRes, faRes, flashRes, err, timedOut, linkOpen, faults, retryPhase,
              flashing>>
flashVars == <<coreVars, unitVars>>

\* No flash() call under study.
NoFlash ==
  /\ inp = [partial |-> TRUE, minInc |-> 0, totalPages |-> 1, differs |-> {}]
  /\ FlashIdle

WbAddrs == {0, 4}
WbWords == {<<7>>, <<7, 9>>}

\* The requests one pass of writeBlockCore issues.
CswReq == [reg |-> "CSW", val |-> <<>>]
TarReq(addr) == [reg |-> "TAR", val |-> <<addr>>]
DrwReq(words) == [reg |-> "DRW", val |-> words]

\* The status byte of a transfer response.
StatusByte(resp) == CASE resp = "OK" -> 1 [] resp = "WAIT" -> 2 [] OTHER -> 4

\* writeRegRepeat: `if (buf[3] !== 1) throw new Error("(many-wr) Bad transfer status ...")`:
\* the error's dapWait property, "none" if nothing is thrown.
writeRegRepeat(resp) == IF StatusByte(resp) # 1 THEN "undefined" ELSE "none"

\* cortexM.writeAP (dapjs): the dapWait property of the error it throws on a
\* wait response; whether dapjs sets it is the library's choice (wb.tagged).
writeAP(resp, tagged) ==
  IF StatusByte(resp) = 1 THEN "none" ELSE IF resp = "WAIT" /\ tagged THEN "true" ELSE "undefined"

\* writeBlockCore's catch block: `if (e.dapWait)` retry after 100 ms, else rethrow.
Catch(dapWait) == IF dapWait = "true" THEN "sleep" ELSE "throw"

\* What the transport answers to the request being awaited.
WbResponse(op) ==
  IF wb.at = op /\ wb.waits > 0 THEN "WAIT"
  ELSE IF op = "drw" THEN wb.final ELSE "OK"

WbInit ==
  /\ NoFlash
  /\ UnitsIdle
  /\ wb \in {[WbIdle EXCEPT !.n = n, !.waits = n, !.at = at, !.tagged = tg, !.final = f,
                           !.addr = a, !.words = w] :
               n \in 0..MaxWaits, at \in {"csw", "tar", "drw"}, tg \in BOOLEAN,
               f \in {"OK", "FAULT"}, a \in WbAddrs, w \in WbWords}

\* writeBlockCore is called: writeAP(ApReg.CSW, ...) is awaited.
WbCall ==
  /\ wb.pc = "idle"
  /\ wb' = [wb EXCEPT !.pc = "csw", !.sent = Append(@, CswReq)]
  /\ UNCHANGED flashVars

\* An error with the given dapWait property reaches the catch block.
WbCaught(dapWait, used) ==
  IF Catch(dapWait) = "sleep"
  THEN wb' = [wb EXCEPT !.pc = "sleep", !.waits = @ - used]
  ELSE wb' = [wb EXCEPT !.pc = "done", !.res = "throw", !.waits = @ - used]

\* writeAP(ApReg.CSW, ...) settles; then writeAP(ApReg.TAR, addr) is awaited.
WbCswDone ==
  /\ wb.pc = "csw"
  /\ LET r == WbResponse("csw")
         e == writeAP(r, wb.tagged)
     IN IF e = "none"
        THEN wb' = [wb EXCEPT !.pc = "tar", !.sent = Append(@, TarReq(wb.addr))]
        ELSE WbCaught(e, 1)
  /\ UNCHANGED flashVars

\* writeAP(ApReg.TAR, addr) settles; then writeRegRepeat(DRW, words) is awaited.
WbTarDone ==
  /\ wb.pc = "tar"
  /\ LET r == WbResponse("tar")
         e == writeAP(r, wb.tagged)
     IN IF e = "none"
        THEN wb' = [wb EXCEPT !.pc = "drw", !.sent = Append(@, DrwReq(wb.words))]
        ELSE WbCaught(e, 1)
  /\ UNCHANGED flashVars

\* writeRegRepeat settles.
WbDrwDone ==
  /\ wb.pc = "drw"
  /\ LET r == WbResponse("drw")
         e == writeRegRepeat(r)
     IN IF e = "none"
        THEN wb' = [wb EXCEPT !.pc = "done", !.res = "ok"]
        ELSE WbCaught(e, IF r = "WAIT" THEN 1 ELSE 0)
  /\ UNCHANGED flashVars

\* The 100 ms delay ends: `return await this.writeBlockCore(addr, words)`.
WbSleepDone ==
  /\ wb.pc = "sleep"
  /\ wb' = [wb EXCEPT !.pc = "csw", !.sleeps = @ + 1, !.sent = Append(@, CswReq)]
  /\ UNCHANGED flashVars

WbNext ==
  \/ WbCall
  \/ WbCswDone
  \/ WbTarDone
  \/ WbDrwDone
  \/ WbSleepDone

WbSpec == WbInit /\ [][WbNext]_vars

\* ============================================================================
\* Properties
\* ============================================================================

\* The write attempts made by partialFlashAsync itself.
PfaWrites == SelectSeq(writes, LAMBDA w : w.site \in {"preferred", "fallback"})

\* The positions flash() is in while partialFlashAsync reads checksums or writes pages.
ChecksumPcs == {"csExec", "csWaitHalt", "csRead", "writeBin"}
PartialPcs == {"pfWriteFirst", "pfHalt", "pfRegs", "pfResume", "pfWriteNext", "pfWaitHalt"}
PostResetPcs == {"prAircr", "prPoll"}

Numeric(i) == ~log[i].undef

Terminals == {i \in 1..Len(log) : log[i].undef}

\* Requests outstanding on the DAPWrapper: what flash() awaits, what the reset
\* task awaits, and the register writes of Promise.all.
MainLinkOps == ChecksumPcs \cup (PartialPcs \ {"pfRegs"}) \cup PostResetPcs
                 \cup {"connectInternal", "fullFlash", "faDisconnect", "enrich"}
ResetLinkOps == {"halt", "readDemcr", "armDemcr", "aircr", "pollReset", "waitHalt",
                 "disarm", "reconnect"}
InFlight ==
  (IF pc \in MainLinkOps THEN 1 ELSE 0) + (IF rpc \in ResetLinkOps THEN 1 ELSE 0)
    + regsPending

\* C1: in partialFlashAsync the preferred write path is tried first; if it throws,
\* the other path is run once as the fallback; a fallback that succeeds makes the
\* call return the mode that completed, a fallback that throws makes the call
\* throw that error; there are never more than two write attempts and no path is
\* attempted twice.
C1_FallbackOnce ==
  LET pw == PfaWrites
      n == Len(pw)
  IN /\ n <= 2
     /\ n >= 1 => pw[1].site = "preferred"
     /\ (n >= 1 /\ pw[1].res = "fail") => n = 2
     /\ n = 2 => /\ pw[1].res = "fail"
                 /\ pw[2].site = "fallback"
                 /\ pw[2].path # pw[1].path
     /\ pfaRes \in {"true", "false"} =>
          /\ n >= 1 /\ pw[n].res = "ok"
          /\ (pfaRes = "true") = (pw[n].path = "partial")
     /\ (n >= 1 /\ pw[n].res = "ok" /\ pc \notin PostResetPcs) => pfaRes \in {"true", "false"}
     /\ (n = 2 /\ pw[2].res = "fail") =>
          /\ pfaRes = "throw"
          /\ pc = "faDisconnect" => err = pw[2].path

\* C1 witness: the partial path was preferred and threw, the full flash run as
\* the fallback succeeded and partialFlashAsync returned false.
C1_Witness ==
  /\ Len(PfaWrites) = 2
  /\ PfaWrites[1] = [path |-> "partial", site |-> "preferred", res |-> "fail"]
  /\ PfaWrites[2] = [path |-> "full", site |-> "fallback", res |-> "ok"]
  /\ pfaRes = "false"

\* C2: the path partialFlashAsync tries first is the full write exactly when
\* changedPages.length > totalPages / 2 (so the partial write when the two are
\* equal), and the full write when every page differs.
C2_PreferredPath ==
  \A i \in 1..Len(writes) :
    writes[i].site = "preferred" =>
      /\ i = 1
      /\ (writes[i].path = "full") = (2 * Cardinality(inp.differs) > inp.totalPages)
      /\ inp.differs = 1..inp.totalPages => writes[i].path = "full"

\* C2 witness: exactly half of the pages differ and the partial write is tried first.
C2_Witness ==
  /\ Len(writes) >= 1
  /\ writes[1] = [path |-> "partial", site |-> "preferred", res |-> "running"]
  /\ 2 * Cardinality(inp.differs) = inp.totalPages

\* C3: once flash() has settled, whether it completed or threw at any step, the
\* progress callback has been called with undefined exactly once, and that call
\* is the last one.
C3_TerminalNoneOnce ==
  flashRes # "none" => /\ Cardinality(Terminals) = 1
                       /\ log[Len(log)].undef

\* C4 as stated: the fractions passed to the progress callback lie in [0,1] and
\* never decrease, with or without a fallback.
C4_Monotone ==
  \A i, j \in 1..Len(log) :
    (i < j /\ Numeric(i) /\ Numeric(j)) =>
      /\ 0 <= log[i].value /\ log[j].value <= Scale
      /\ log[i].value <= log[j].value

\* C4 as amended: the fractions lie in [0,1]; they never decrease among the calls
\* of one write path (calls with the same partial flag), nor in a flash without
\* a fallback; after a fallback the fractions of the second path start again.
C4_MonotonePerPath ==
  \A i, j \in 1..Len(log) :
    (i < j /\ Numeric(i) /\ Numeric(j)) =>
      /\ 0 <= log[i].value /\ log[i].value <= Scale
      /\ 0 <= log[j].value /\ log[j].value <= Scale
      /\ (log[i].partial = log[j].partial \/ Len(PfaWrites) < 2) =>
           log[i].value <= log[j].value
      /\ \A k \in Terminals : j < k

\* C4 witness: a fallback made the reported fraction go down.
C4_Witness ==
  /\ Len(PfaWrites) = 2
  /\ \E i \in 1..(Len(log) - 1) :
       Numeric(i) /\ Numeric(i + 1) /\ log[i].value > log[i + 1].value

\* The C5 scenario: the preferred full flash throws, nothing else fails, and
\* the flash has settled.  Then flash() completed, flashAsync returned true after
\* a partial write and the last progress call is (undefined, true).
FullThrowsOnceScenario ==
  ( /\ flashRes # "none"
    /\ faults = {"full"}
    /\ Len(writes) = 2
    /\ writes[1].path = "full" /\ writes[1].site = "preferred" )
  => /\ flashRes = "ok"
     /\ faRes = "true"
     /\ writes[2] = [path |-> "partial", site |-> "fallback", res |-> "ok"]
     /\ Len(log) > 0 /\ log[Len(log)] = Call(TRUE, 0, TRUE)

\* C5 as stated: the scenario, and in general the partial flag of the terminal
\* progress call is the mode of the write that completed.
C5_TerminalFlagAlways ==
  /\ FullThrowsOnceScenario
  /\ \A i \in Terminals, k \in 1..Len(writes) :
       writes[k].res = "ok" => log[i].partial = (writes[k].path = "partial")

\* C5 as amended: the scenario; and the partial flag of the terminal progress
\* call is true exactly when flashAsync returned true, which is the mode of the
\* write that completed whenever flashAsync did not throw.  When the disconnect
\* that closes flashAsync throws after a completed partial write, the terminal
\* call is (undefined, false).
C5_TerminalFlagIsMode ==
  /\ FullThrowsOnceScenario
  /\ \A i \in Terminals :
       /\ log[i].partial = (faRes = "true")
       /\ faRes # "throw" =>
            \A k \in 1..Len(writes) :
              writes[k].res = "ok" => log[i].partial = (writes[k].path = "partial")
       /\ faRes \in {"true", "false"} => \E k \in 1..Len(writes) : writes[k].res = "ok"

\* C5 witness: full flash preferred and failed, partial fallback succeeded,
\* flash() completed with the terminal call (undefined, true).
C5_Witness ==
  /\ flashRes = "ok"
  /\ faRes = "true"
  /\ faults = {"full"}
  /\ Len(writes) = 2 /\ writes[1].path = "full"
  /\ log[Len(log)] = Call(TRUE, 0, TRUE)

\* C6 as stated: whenever flashAsync returns after a write that succeeded, the
\* full flash taken after a reset timeout included, a target reset was attempted.
C6_ResetAfterEveryWrite ==
  faRes \in {"true", "false"} => postReset \in {"ok", "failed"}

\* C6 as amended: after a write that succeeds inside partialFlashAsync (preferred
\* path or fallback) a target reset is attempted before partialFlashAsync returns,
\* and a failure of that reset is swallowed: the call returns the mode that
\* completed.  The full flash flashAsync takes after a reset timeout is followed
\* by no reset.
C6_ResetAfterPfaWrite ==
  LET pw == PfaWrites
      n == Len(pw)
  IN /\ (n >= 1 /\ pw[n].res = "ok") =>
          /\ postReset # "none"
          /\ postReset \in {"ok", "failed"} =>
               /\ pfaRes \in {"true", "false"}
               /\ (pfaRes = "true") = (pw[n].path = "partial")
     /\ pfaRes \in {"true", "false"} => postReset \in {"ok", "failed"}
     /\ timedOut => postReset = "none"

\* C6 witness: the reset after a completed write threw and partialFlashAsync
\* still returned.
C6_Witness ==
  /\ postReset = "failed"
  /\ pfaRes \in {"true", "false"}
  /\ faRes = pfaRes

\* What holds of the timeout branch whatever its closing disconnect does: one
\* write attempt, a full flash, and neither the checksum read, the partial path
\* nor the reset after a write.
TimeoutBranch ==
  /\ Len(writes) = 1
  /\ writes[1].path = "full" /\ writes[1].site = "timeout"
  /\ pc \notin ChecksumPcs \cup PartialPcs \cup PostResetPcs
  /\ pfaRes = "none"

\* C7 as stated: once the 1-second timeout has won the race against the reset,
\* flashAsync makes exactly one write attempt, a full flash; it runs neither the
\* checksum read nor the partial path; it returns false if that full flash
\* succeeds and throws the full flash's error if it fails.
C7_TimeoutOutcome ==
  timedOut =>
    /\ TimeoutBranch
    /\ faRes # "none" => /\ writes[1].res = "ok" => faRes = "false"
                         /\ writes[1].res = "fail" => faRes = "throw"
    /\ (pc = "finallyTail" /\ writes[1].res = "fail") => err = "full"

\* C7 as amended: as stated, unless the disconnectAsync in flashAsync's finally
\* block throws: then flashAsync throws the disconnect's error, whether the
\* full flash succeeded or failed.
C7_TimeoutFullFlash ==
  timedOut =>
    /\ TimeoutBranch
    /\ (faRes # "none" /\ "disconnect" \notin faults) =>
         /\ writes[1].res = "ok" => faRes = "false"
         /\ writes[1].res = "fail" => faRes = "throw"
    /\ (pc = "finallyTail" /\ "disconnect" \notin faults /\ writes[1].res = "fail") =>
         err = "full"
    /\ "disconnect" \in faults => faRes = "throw"
    /\ (pc = "finallyTail" /\ "disconnect" \in faults) => err = "disconnect"

\* C7 witness: the timeout won, the full flash succeeded, flashAsync returned false.
C7_Witness ==
  /\ timedOut
  /\ faRes = "false"
  /\ writes = <<[path |-> "full", site |-> "timeout", res |-> "ok"]>>

\* C8: every flash() call eventually settles.
C8_FlashSettles == <>(flashRes # "none")

\* C9: at most one request is in flight on the DAPWrapper at any time.
C9_OneRequestInFlight == InFlight <= 1

\* C10: a block write (the DRW transfer of writeRegRepeat) that meets wait N
\* times and then succeeds makes writeBlockCore succeed, after N delays and N + 1
\* full passes (CSW, TAR, DRW) with the same address and words.
C10_WaitRetried ==
  (wb.pc = "done" /\ wb.at = "drw" /\ wb.final = "OK") =>
    /\ wb.res = "ok"
    /\ wb.sleeps = wb.n
    /\ Len(wb.sent) = 3 * (wb.n + 1)
    /\ \A k \in 1..Len(wb.sent) :
         wb.sent[k] = CASE k % 3 = 1 -> CswReq
                        [] k % 3 = 2 -> TarReq(wb.addr)
                        [] OTHER -> DrwReq(wb.words)

(***************************************************************************)
(* DAPWrapper.readRegRepeat and cmdNums, one call against one response.    *)
(* A response is the byte sequence transport.read() returned; rr.rejects   *)
(* when the transport fails instead.                                       *)
(***************************************************************************)

\* buf[i] of a Uint8Array: undefined (here -1) past the end.
ByteAt(buf, i) == IF i + 1 <= Len(buf) THEN buf[i + 1] ELSE -1

\* buf.subarray(from, to): the bounds are clamped to the array.
Subarray(buf, from, to) == SubSeq(buf, from + 1, IF to <= Len(buf) THEN to ELSE Len(buf))

\* Uint8Array.from(packet): every number is stored modulo 256.
ToBytes(packet) == [i \in 1..Len(packet) |-> packet[i] % 256]

\* regRequest(regId): the request byte of a read of regId (read bit, bank bit,
\* register address bits 2 and 3).
regRequest(regId) == 2 + (IF regId < 4 THEN 0 ELSE 1) + 4 * (regId % 4)

\* readRegRepeat's packet: cmdNums puts the opcode before [0, cnt, request x cnt].
RrPacket(regId, cnt) ==
  ToBytes(<<DAP_TRANSFER, 0, cnt>> \o [i \in 1..cnt |-> regRequest(regId)])

\* cmdNums: the error it throws on the response, "none" if it returns buf.  The
\* status byte buf[1] is not looked at for DAP_TRANSFER.
cmdNums(op, buf) == IF ByteAt(buf, 0) # op THEN "Bad response" ELSE "none"

\* readRegRepeat after cmdNums returned, without the check of the status byte.
readRegRepeatNoStatus(cnt, buf) ==
  IF cmdNums(DAP_TRANSFER, buf) # "none" THEN [ok |-> FALSE, error |-> cmdNums(DAP_TRANSFER, buf)]
  ELSE IF ByteAt(buf, 1) # cnt THEN [ok |-> FALSE, error |-> "(many) Bad #trans"]
  ELSE [ok |-> TRUE, data |-> Subarray(buf, 3, 3 + cnt * 4)]

\* readRegRepeat: what the call settles with, given the response buf.
readRegRepeat(cnt, buf) ==
  IF cmdNums(DAP_TRANSFER, buf) # "none" THEN [ok |-> FALSE, error |-> cmdNums(DAP_TRANSFER, buf)]
  ELSE IF ByteAt(buf, 1) # cnt THEN [ok |-> FALSE, error |-> "(many) Bad #trans"]
  ELSE IF ByteAt(buf, 2) # 1 THEN [ok |-> FALSE, error |-> "(many) Bad transfer status"]
  ELSE [ok |-> TRUE, data |-> Subarray(buf, 3, 3 + cnt * 4)]

\* The data bytes of a response: byte i of the payload is 16 + i.
RrPayload(n) == [i \in 1..n |-> 16 + i]

\* The responses tried: any opcode, count and status, with a payload of any
\* length up to one word more than MaxCnt reads; and responses cut short.
RrResponses ==
  {<<o, c, st>> \o RrPayload(n) :
     o \in {DAP_TRANSFER, 0}, c \in 0..MaxCnt, st \in {1, 2, 4}, n \in 0..(4 * MaxCnt + 4)}
  \cup {<<>>, <<DAP_TRANSFER>>, <<DAP_TRANSFER, 1>>}

RrInit ==
  /\ NoFlash
  /\ wb = WbIdle
  /\ rm = Idle /\ wh = Idle /\ ex = Idle /\ rs = Idle /\ dw = Idle /\ Units2Idle
  /\ rr \in [pc : {"call"}, regId : {7}, cnt : 0..MaxCnt, resp : RrResponses,
             rejects : BOOLEAN, sent : {<<>>}, res : {[ok |-> FALSE, error |-> "none"]}]

\* readRegRepeat is called: cmdNums sends the packet and awaits the response.
RrSend ==
  /\ rr.pc = "call"
  /\ rr' = [rr EXCEPT !.pc = "await", !.sent = Append(@, RrPacket(rr.regId, rr.cnt))]
  /\ UNCHANGED <<coreVars, wb, rm, wh, ex, rs, dw, unitVars2>>

\* transport.read() settles: the checks of cmdNums and readRegRepeat run and
\* the call settles.
RrRead ==
  /\ rr.pc = "await"
  /\ rr' = [rr EXCEPT !.pc = "done",
                      !.res = IF rr.rejects THEN [ok |-> FALSE, error |-> "transport"]
                              ELSE readRegRepeat(rr.cnt, rr.resp)]
  /\ UNCHANGED <<coreVars, wb, rm, wh, ex, rs, dw, unitVars2>>

RrNext == RrSend \/ RrRead

RrSpec == RrInit /\ [][RrNext]_vars

\* The three checks of the claim on the response held by rr.
RrAccepted ==
  /\ ~rr.rejects
  /\ ByteAt(rr.resp, 0) = DAP_TRANSFER
  /\ ByteAt(rr.resp, 1) = rr.cnt
  /\ ByteAt(rr.resp, 2) = 1

\* C11 as stated: one request is sent; the call succeeds exactly when the
\* response opcode is the request's, the transfer count is cnt and the status
\* byte is 1, and throws otherwise with no second request; on success it returns
\* exactly cnt * 4 bytes, response bytes 3 to 3 + 4 * cnt.
C11_ExactlyCntWords ==
  rr.pc = "done" =>
    /\ Len(rr.sent) = 1
    /\ rr.res.ok = RrAccepted
    /\ rr.res.ok => /\ Len(rr.res.data) = 4 * rr.cnt
                    /\ rr.res.data = RrPayload(4 * rr.cnt)

\* C11 as amended: as stated, but the length of the response is not checked: on
\* success the call returns the response bytes from 3 up to 3 + 4 * cnt that
\* exist, which are exactly cnt * 4 bytes when the response holds that many.
C11_ReadRegRepeat ==
  rr.pc = "done" =>
    /\ Len(rr.sent) = 1
    /\ rr.sent[1][1] = DAP_TRANSFER /\ rr.sent[1][3] = rr.cnt /\ Len(rr.sent[1]) = 3 + rr.cnt
    /\ rr.res.ok = RrAccepted
    /\ rr.res.ok =>
         LET have == Len(rr.resp) - 3 IN
         /\ have >= 4 * rr.cnt => rr.res.data = RrPayload(4 * rr.cnt)
         /\ have < 4 * rr.cnt => rr.res.data = RrPayload(have)

\* C11 witness: a call for MaxCnt reads succeeded with MaxCnt words of data.
C11_Witness ==
  /\ rr.pc = "done" /\ rr.cnt = MaxCnt
  /\ rr.res.ok /\ Len(rr.res.data) = 4 * MaxCnt

(***************************************************************************)
(* DAPWrapper.readMem32WaitOnError, one call.  Every cortexM.readMem32     *)
(* settles in one of four ways: with a value, with an Error whose message  *)
(* starts with "Transfer", with another Error, or with a thrown value that *)
(* is not an Error (dapjs rejects some promises with strings).             *)
(***************************************************************************)
ReadOutcomes == {"value", "TransferError", "OtherError", "NonError"}

\* `while (retries < 20)`, with the loop entered once more.
KeepTryingLE(retries) == retries <= MaxRetries
\* `while (retries < 20)`.
KeepTrying(retries) == retries < MaxRetries

\* The catch block: what follows a rejection of the given kind.
\*   e instanceof Error, /^Transfer/ matches:  retries++, sleep, loop
\*   e instanceof Error otherwise:             throw e
\*   not an Error:                             nothing; the loop goes on
CatchRead(kind) ==
  CASE kind = "TransferError" -> "sleep"
    [] kind = "OtherError" -> "throw"
    [] OTHER -> "loop"

RmInit ==
  /\ NoFlash
  /\ wb = WbIdle
  /\ rr = Idle /\ wh = Idle /\ ex = Idle /\ rs = Idle /\ dw = Idle /\ Units2Idle
  /\ rm = [pc |-> "call", retries |-> 0, lastError |-> 0, attempts |-> 0, nonErrors |-> 0,
           others |-> 0, sleptMs |-> 0, swallowed |-> FALSE, res |-> [kind |-> "none", of |-> 0]]

\* The loop test, after which either readMem32 is called or lastError is thrown.
RmLoop(r) ==
  IF KeepTrying(r.retries)
  THEN [r EXCEPT !.pc = "read", !.attempts = @ + 1]
  ELSE [r EXCEPT !.pc = "done", !.res = [kind |-> "throw", of |-> r.lastError]]

\* readMem32WaitOnError is called.
RmCall ==
  /\ rm.pc = "call"
  /\ rm' = RmLoop(rm)
  /\ UNCHANGED <<coreVars, wb, rr, wh, ex, rs, dw, unitVars2>>

\* cortexM.readMem32 settles.  Attempts are numbered; the value read by attempt
\* n and the error thrown by attempt n are both named n.
RmReadDone ==
  /\ rm.pc = "read"
  /\ \E kind \in ReadOutcomes :
       /\ kind = "NonError" => rm.nonErrors < MaxNonErrors
       /\ rm' =
            IF kind = "value"
            THEN [rm EXCEPT !.pc = "done", !.res = [kind |-> "return", of |-> rm.attempts]]
            ELSE LET caught == IF kind = "NonError"
                               THEN [rm EXCEPT !.nonErrors = @ + 1]
                               ELSE [rm EXCEPT !.lastError = rm.attempts]
                 IN CASE CatchRead(kind) = "sleep" ->
                           [caught EXCEPT !.pc = "sleep", !.retries = @ + 1]
                      [] CatchRead(kind) = "throw" ->
                           [caught EXCEPT !.pc = "done", !.others = @ + 1,
                                          !.res = [kind |-> "throw", of |-> rm.attempts]]
                      [] OTHER -> [RmLoop(caught) EXCEPT !.swallowed = TRUE]
  /\ UNCHANGED <<coreVars, wb, rr, wh, ex, rs, dw, unitVars2>>

\* The 20 ms timer fires: back to the loop test.
RmSleepDone ==
  /\ rm.pc = "sleep"
  /\ rm' = RmLoop([rm EXCEPT !.sleptMs = @ + RetryDelayMs])
  /\ UNCHANGED <<coreVars, wb, rr, wh, ex, rs, dw, unitVars2>>

RmNext == RmCall \/ RmReadDone \/ RmSleepDone

RmSpec == RmInit /\ [][RmNext]_vars

C13_OtherFailureFatal ==
  /\ rm.swallowed = FALSE
  /\ (rm.pc # "idle" /\ rm.others + rm.nonErrors > 0) =>
       (rm.pc = "done" /\ rm.res = [kind |-> "throw", of |-> rm.attempts])

(***************************************************************************)
(* DAPWrapper.waitForHalt and waitForHaltCore, one call.  wh.now is        *)
(* new Date().getTime(); an isHalted() round trip over USB takes at least  *)
(* one millisecond.                                                        *)
(***************************************************************************)

\* The errors told apart by `instanceof TimeoutError` in flashAsync and in
\* enrichedError: an instance of the TimeoutError class of async-util, or not.
TimeoutErrorValue == [class |-> "TimeoutError", message |-> "timeout"]
PlainTimeout == [class |-> "Error", message |-> "timeout"]

\* waitForHalt(timeToWait = 10000): the default applies when no argument is given.
TimeToWait(arg) == IF arg.given THEN arg.ms ELSE DefaultTimeToWait

\* waitForHaltCore with a deadline test of `>=`.
waitForHaltCoreGE(halted, now, deadline) ==
  IF now >= deadline THEN "throw" ELSE IF ~halted THEN "poll" ELSE "return"

\* waitForHaltCore(halted, deadline) at clock value now: throw new Error("timeout"),
\* await isHalted() and recurse, or return.
waitForHaltCore(halted, now, deadline) ==
  IF now > deadline THEN "throw" ELSE IF ~halted THEN "poll" ELSE "return"

WhArgs == [given : {TRUE}, ms : {0, 1, MaxHaltMs}] \cup {[given |-> FALSE, ms |-> 0]}
WhPollMs == {1, LongPollMs}

WhInit ==
  /\ NoFlash
  /\ wb = WbIdle
  /\ rr = Idle /\ rm = Idle /\ ex = Idle /\ rs = Idle /\ dw = Idle /\ Units2Idle
  /\ wh \in [pc : {"call"}, arg : WhArgs, callTime : {0, 7}, now : {0}, deadline : {0},
             polls : {0}, everHalted : {FALSE}, res : {[kind |-> "none"]}]

\* One run of waitForHaltCore's body with the halted flag it was passed.
WhCore(w, halted) ==
  LET r == waitForHaltCore(halted, w.now, w.deadline) IN
  CASE r = "throw" -> [w EXCEPT !.pc = "done", !.res = [kind |-> "throw", error |-> PlainTimeout]]
    [] r = "poll" -> [w EXCEPT !.pc = "poll", !.polls = @ + 1]
    [] OTHER -> [w EXCEPT !.pc = "done", !.res = [kind |-> "return"]]

\* waitForHalt is called: the deadline is computed and waitForHaltCore(false, deadline) runs.
WhCall ==
  /\ wh.pc = "call"
  /\ wh' = WhCore([wh EXCEPT !.now = wh.callTime,
                             !.deadline = wh.callTime + TimeToWait(wh.arg)], FALSE)
  /\ UNCHANGED <<coreVars, wb, rr, rm, ex, rs, dw, unitVars2>>

\* cortexM.isHalted() settles after dt ms, with the halt status or an error.
WhPollDone ==
  /\ wh.pc = "poll"
  /\ \E dt \in WhPollMs, out \in {"halted", "running", "rejects"} :
       LET w == [wh EXCEPT !.now = @ + dt, !.everHalted = @ \/ out = "halted"] IN
       wh' = IF out = "rejects"
             THEN [w EXCEPT !.pc = "done",
                            !.res = [kind |-> "throw", error |-> [class |-> "Error", message |-> "transfer"]]]
             ELSE WhCore(w, out = "halted")
  /\ UNCHANGED <<coreVars, wb, rr, rm, ex, rs, dw, unitVars2>>

WhNext == WhCall \/ WhPollDone

WhSpec == WhInit /\ [][WhNext]_vars

\* The call ended without the target ever reporting halted and without a failed poll.
WhNeverHalted ==
  /\ wh.pc = "done" /\ ~wh.everHalted
  /\ ~(wh.res.kind = "throw" /\ wh.res.error.message = "transfer")

\* C14 as stated: against a target that never reports halted, waitForHalt raises
\* TimeoutError once the deadline (call time + timeoutMs, default 10000 ms) has
\* passed; it never polls forever.
C14_RaisesTimeoutError ==
  /\ wh.pc # "idle" => wh.polls <= TimeToWait(wh.arg) + 1
  /\ WhNeverHalted =>
       /\ wh.res = [kind |-> "throw", error |-> TimeoutErrorValue]
       /\ wh.now > wh.callTime + (IF wh.arg.given THEN wh.arg.ms ELSE 10000)

\* C14 as amended: the same, but what is raised is a plain Error with the
\* message "timeout", not an instance of TimeoutError.  While a poll is awaited
\* the deadline had not passed when the poll was started.
C14_HaltDeadline ==
  /\ wh.pc # "idle" => wh.polls <= TimeToWait(wh.arg) + 1
  /\ wh.pc \in {"poll", "done"} =>
       wh.deadline = wh.callTime + (IF wh.arg.given THEN wh.arg.ms ELSE 10000)
  /\ WhNeverHalted =>
       /\ wh.res = [kind |-> "throw", error |-> PlainTimeout]
       /\ wh.res.error # TimeoutErrorValue
       /\ wh.now > wh.deadline
  /\ (wh.pc = "done" /\ wh.res.kind = "return") => (wh.everHalted /\ wh.now <= wh.deadline)

\* C14 witness: a call with the default timeout against a target that never
\* halts ended with the timeout error after the 10000 ms had passed.
C14_Witness ==
  /\ WhNeverHalted /\ ~wh.arg.given
  /\ wh.res.kind = "throw" /\ wh.res.error.message = "timeout"
  /\ wh.now > wh.callTime + 10000 /\ wh.polls > 3

\* C36: once a poll has reported the core halted the call returns; it does
\* not throw the timeout, however long that poll took.
C36_HaltedNeverTimesOut ==
  (wh.pc = "done" /\ wh.everHalted) => wh.res = [kind |-> "return"]

(***************************************************************************)
(* DAPWrapper.executeAsync, one call with ex.nregs general-purpose         *)
(* register values.  ex.ops lists the requests issued to the target;       *)
(* ex.core is the state of the core, which halts by itself when the code   *)
(* it was resumed into reaches its breakpoint.                             *)
(***************************************************************************)

\* `if (registers.length > 12)`, off by one.
TooManyRegistersLax(n) == n > MaxGpRegisters + 1
\* `if (registers.length > 12)`.
TooManyRegisters(n) == n > MaxGpRegisters

ExOp(name) == [op |-> name, idx |-> 0]
ExReg(i) == [op |-> "writeCoreRegister", idx |-> i]

\* What executeAsync does once resume(true) has settled, if it returned there.
AfterResumeReturn == "return"
\* What executeAsync does once resume(true) has settled: `return this.waitForHalt()`.
AfterResume == "waitForHalt"

\* The step after the given one; the general registers follow SP.
ExAfter(step, i, n) ==
  CASE step = "halt" -> "writeBlockAsync"
    [] step = "writeBlockAsync" -> "PC"
    [] step = "PC" -> "LR"
    [] step = "LR" -> "SP"
    [] step \in {"SP", "reg"} -> IF i < n THEN "reg" ELSE "resume"
    [] OTHER -> AfterResume

ExInit ==
  /\ NoFlash
  /\ wb = WbIdle
  /\ rr = Idle /\ rm = Idle /\ wh = Idle /\ rs = Idle /\ dw = Idle /\ Units2Idle
  /\ ex \in [pc : {"call"}, nregs : 0..MaxRegArgs, i : {0}, ops : {<<>>},
             core : {"running", "halted"}, elapsed : {0}, res : {"none"}]

\* executeAsync is called: the check of registers.length, then halt(true) is awaited.
ExCall ==
  /\ ex.pc = "call"
  /\ ex' = IF TooManyRegisters(ex.nregs)
           THEN [ex EXCEPT !.pc = "done", !.res = "Only 12 general purpose registers"]
           ELSE [ex EXCEPT !.pc = "halt", !.ops = Append(@, ExOp("halt"))]
  /\ UNCHANGED <<coreVars, wb, rr, rm, wh, rs, dw, unitVars2>>

\* The request being awaited settles; on success the next one is issued.
ExStepDone ==
  /\ ex.pc \in {"halt", "writeBlockAsync", "PC", "LR", "SP", "reg", "resume"}
  /\ \E ok \in BOOLEAN :
       ex' =
         IF ~ok THEN [ex EXCEPT !.pc = "done", !.res = "throw"]
         ELSE LET next == ExAfter(ex.pc, ex.i, ex.nregs)
                  core == CASE ex.pc = "halt" -> "halted"
                            [] ex.pc = "resume" -> "running"
                            [] OTHER -> ex.core
              IN CASE next = "reg" ->
                        [ex EXCEPT !.pc = next, !.core = core, !.i = @ + 1,
                                   !.ops = Append(@, ExReg(ex.i))]
                   [] next = "return" ->
                        [ex EXCEPT !.pc = "done", !.core = core, !.res = "return"]
                   [] OTHER ->
                        [ex EXCEPT !.pc = next, !.core = core, !.elapsed = 0,
                                   !.ops = Append(@, ExOp(next))]
  /\ UNCHANGED <<coreVars, wb, rr, rm, wh, rs, dw, unitVars2>>

\* The code the core was resumed into reaches its breakpoint.
ExCoreHalts ==
  /\ ex.pc = "waitForHalt" /\ ex.core = "running"
  /\ ex' = [ex EXCEPT !.core = "halted"]
  /\ UNCHANGED <<coreVars, wb, rr, rm, wh, rs, dw, unitVars2>>

\* waitForHalt: one isHalted() poll settles.
ExWaitHaltPoll ==
  /\ ex.pc = "waitForHalt"
  /\ \E dt \in PollTicks, ok \in BOOLEAN :
       LET e == Min(ex.elapsed + dt, HaltTicks + 1)
           r == IF ok THEN WaitForHaltCore(e, ex.core = "halted") ELSE "throw"
       IN ex' = CASE r = "halted" -> [ex EXCEPT !.pc = "done", !.res = "return", !.elapsed = 0]
                  [] r = "poll" -> [ex EXCEPT !.elapsed = e]
                  [] r = "timeout" -> [ex EXCEPT !.pc = "done", !.res = "timeout", !.elapsed = 0]
                  [] OTHER -> [ex EXCEPT !.pc = "done", !.res = "throw", !.elapsed = 0]
  /\ UNCHANGED <<coreVars, wb, rr, rm, wh, rs, dw, unitVars2>>

ExNext == ExCall \/ ExStepDone \/ ExCoreHalts \/ ExWaitHaltPoll

ExSpec == ExInit /\ [][ExNext]_vars

\* The requests of a call with n register values up to and including resume.
ExRequests(n) ==
  <<ExOp("halt"), ExOp("writeBlockAsync"), ExOp("PC"), ExOp("LR"), ExOp("SP")>>
    \o [i \in 1..n |-> ExReg(i - 1)] \o <<ExOp("resume")>>

IsPrefix(a, b) == Len(a) <= Len(b) /\ a = SubSeq(b, 1, Len(a))

\* C15 as stated: executeAsync halts the core, writes the code, sets PC, LR, SP
\* and the general registers, resumes the core and returns at once, without
\* waiting for the core to halt.
C15_ReturnsAfterResume ==
  /\ ex.pc # "idle" => IsPrefix(ex.ops, ExRequests(ex.nregs))
  /\ (ex.pc = "done" /\ ex.res = "return") => ex.ops = ExRequests(ex.nregs)

\* C15 as amended: the same requests in the same order, but after resume
\* executeAsync awaits waitForHalt: it returns only once the core has been seen
\* halted, and throws if waitForHalt times out.
C15_WaitsForHalt ==
  /\ ex.pc # "idle" => IsPrefix(ex.ops, ExRequests(ex.nregs) \o <<ExOp("waitForHalt")>>)
  /\ (ex.pc = "done" /\ ex.res = "return") =>
       /\ ex.ops = ExRequests(ex.nregs) \o <<ExOp("waitForHalt")>>
       /\ ex.core = "halted"
  /\ (ex.pc = "done" /\ ex.res = "timeout") =>
       ex.ops = ExRequests(ex.nregs) \o <<ExOp("waitForHalt")>>

\* C15 witness: a call with the 12 register values returned after waitForHalt.
C15_Witness ==
  /\ ex.pc = "done" /\ ex.res = "return" /\ ex.nregs = 12
  /\ Len(ex.ops) = 19 /\ ex.ops[19] = ExOp("waitForHalt")

\* C16: a call with more than 12 register values throws before any request is
\* issued to the target; a call with at most 12 does not throw for that reason.
C16_TooManyRegisters ==
  ex.pc \notin {"idle", "call"} =>
    /\ ex.nregs > 12 => (ex.pc = "done" /\ ex.ops = <<>>
                         /\ ex.res = "Only 12 general purpose registers")
    /\ ex.nregs <= 12 => (ex.res # "Only 12 general purpose registers" /\ ex.ops # <<>>)

\* C16 witness: a call with 13 register values has thrown with nothing issued.
C16_Witness ==
  /\ ex.pc = "done" /\ ex.nregs = 13 /\ ex.ops = <<>>
  /\ ex.res = "Only 12 general purpose registers"

(***************************************************************************)
(* DAPWrapper.reset(halt) and softwareReset, one call.  Register values    *)
(* are sets of bit positions.  rs.demcr is the target's DEMCR; rs.ops      *)
(* lists the requests that have settled, reads with the value read.        *)
(***************************************************************************)

\* a | b on 32-bit values held as sets of bit positions.
BitOr(a, b) == a \cup b

\* CortexSpecialReg: the address of DEMCR (0xE000EDFC), its VC_CORERESET bit
\* (bit 0) and the S_RESET_ST bit of DHCSR (bit 25).
DEMCR == {2, 3, 4, 5, 6, 7, 8, 10, 11, 13, 14, 15, 29, 30, 31}
DEMCR_VC_CORERESET == {0}
S_RESET_ST == {25}

\* reset(true): the value of the arming write,
\* `CortexSpecialReg.DEMCR | CortexSpecialReg.DEMCR_VC_CORERESET`.
ArmValue == BitOr(DEMCR, DEMCR_VC_CORERESET)

\* DEMCR values the target may hold when reset is called (TRCENA is bit 24).
DemcrValues == {{}, {24}, {0, 24}, {16}}

\* The operation after op: reset(true) runs the whole sequence, reset(false)
\* only softwareReset (the AIRCR write and the DHCSR poll).
RsAfter(halt, op) ==
  IF halt THEN ResetNextOp(op)
  ELSE IF op = "aircr" THEN "pollReset" ELSE "resolved"

RsReq(name, reg, val) == [op |-> name, reg |-> reg, val |-> val]

RsInit ==
  /\ NoFlash
  /\ wb = WbIdle
  /\ rr = Idle /\ rm = Idle /\ wh = Idle /\ ex = Idle /\ dw = Idle /\ Units2Idle
  /\ \E h \in BOOLEAN, d \in DemcrValues :
       rs = [pc |-> "call", halt |-> h, demcr0 |-> d, demcr |-> d, saved |-> {},
             ops |-> <<>>, polls |-> 0, res |-> "none"]

\* reset(halt) is called: its first request is awaited.
RsCall ==
  /\ rs.pc = "call"
  /\ rs' = [rs EXCEPT !.pc = IF rs.halt THEN "halt" ELSE "aircr"]
  /\ UNCHANGED <<coreVars, wb, rr, rm, wh, ex, dw, unitVars2>>

\* The awaited request (any but the DHCSR read) settles.
RsStepDone ==
  /\ rs.pc \in {"halt", "readDemcr", "armDemcr", "aircr", "waitHalt", "disarm"}
  /\ \E ok \in BOOLEAN :
       rs' =
         IF ~ok THEN [rs EXCEPT !.pc = "done", !.res = "throw"]
         ELSE LET req == CASE rs.pc = "halt" -> RsReq("halt", "", {})
                           [] rs.pc = "readDemcr" -> RsReq("readMem32", "DEMCR", rs.demcr)
                           [] rs.pc = "armDemcr" -> RsReq("writeMem32", "DEMCR", ArmValue)
                           [] rs.pc = "aircr" -> RsReq("writeMem32", "NVIC_AIRCR", {})
                           [] rs.pc = "waitHalt" -> RsReq("waitForHalt", "", {})
                           [] OTHER -> RsReq("writeMem32", "DEMCR", rs.saved)
                  next == RsAfter(rs.halt, rs.pc)
              IN [rs EXCEPT !.ops = Append(@, req),
                            !.saved = IF rs.pc = "readDemcr" THEN rs.demcr ELSE @,
                            !.demcr = IF req.op = "writeMem32" /\ req.reg = "DEMCR"
                                      THEN req.val ELSE @,
                            !.pc = IF next = "resolved" THEN "done" ELSE next,
                            !.res = IF next = "resolved" THEN "return" ELSE @]
  /\ UNCHANGED <<coreVars, wb, rr, rm, wh, ex, dw, unitVars2>>

\* softwareReset: a readMem32(DHCSR) settles; the loop goes on while S_RESET_ST
\* is set in the value read.
RsPollDone ==
  /\ rs.pc = "pollReset"
  /\ \E out \in {"set", "clear", "throw"} :
       /\ out = "set" => rs.polls < MaxResetPolls
       /\ rs' =
            IF out = "throw" THEN [rs EXCEPT !.pc = "done", !.res = "throw"]
            ELSE LET dhcsr == IF out = "set" THEN S_RESET_ST ELSE {}
                     next == IF dhcsr \cap S_RESET_ST # {} THEN "pollReset"
                             ELSE RsAfter(rs.halt, rs.pc)
                 IN [rs EXCEPT !.ops = Append(@, RsReq("readMem32", "DHCSR", dhcsr)),
                               !.polls = IF out = "set" THEN @ + 1 ELSE @,
                               !.pc = IF next = "resolved" THEN "done" ELSE next,
                               !.res = IF next = "resolved" THEN "return" ELSE @]
  /\ UNCHANGED <<coreVars, wb, rr, rm, wh, ex, dw, unitVars2>>

RsNext == RsCall \/ RsStepDone \/ RsPollDone

RsSpec == RsInit /\ [][RsNext]_vars

\* The requests of ops by name and register, runs of the same request taken once.
RECURSIVE Phases(_)
Phases(ops) ==
  IF ops = <<>> THEN <<>>
  ELSE LET head == Phases(SubSeq(ops, 1, Len(ops) - 1))
           last == <<ops[Len(ops)].op, ops[Len(ops)].reg>>
       IN IF head # <<>> /\ head[Len(head)] = last THEN head ELSE Append(head, last)

ResetTruePhases ==
  << <<"halt", "">>, <<"readMem32", "DEMCR">>, <<"writeMem32", "DEMCR">>,
     <<"writeMem32", "NVIC_AIRCR">>, <<"readMem32", "DHCSR">>, <<"waitForHalt", "">>,
     <<"writeMem32", "DEMCR">> >>

ResetFalsePhases == << <<"writeMem32", "NVIC_AIRCR">>, <<"readMem32", "DHCSR">> >>

\* Every DHCSR read but the last found S_RESET_ST set, and once another request
\* has followed the reads the last one found it clear.
PolledUntilClear(ops) ==
  \A i \in 1..Len(ops) :
    (ops[i].op = "readMem32" /\ ops[i].reg = "DHCSR") =>
      /\ i < Len(ops) =>
           (ops[i].val = S_RESET_ST) = (ops[i + 1].reg = "DHCSR")
      /\ (i = Len(ops) /\ rs.pc # "pollReset") =>
           (ops[i].val = {} \/ rs.res = "throw")

\* C17: reset(true) arms VC_CORERESET in DEMCR, requests the software reset and
\* polls DHCSR until S_RESET_ST is clear, waits for the core to halt, then writes
\* back to DEMCR the value read before arming, in this order; reset(false) makes
\* only the software reset: no DEMCR access, no waitForHalt.
C17_ResetOrder ==
  rs.pc # "idle" =>
    /\ rs.halt => IsPrefix(Phases(rs.ops), ResetTruePhases)
    /\ ~rs.halt => IsPrefix(Phases(rs.ops), ResetFalsePhases)
    /\ PolledUntilClear(rs.ops)
    /\ \A i \in 1..Len(rs.ops) :
         (rs.ops[i].op = "writeMem32" /\ rs.ops[i].reg = "DEMCR") =>
           IF i = 3 THEN DEMCR_VC_CORERESET \subseteq rs.ops[i].val
           ELSE i = Len(rs.ops) /\ rs.ops[i].val = rs.demcr0
    /\ (rs.pc = "done" /\ rs.res = "return") =>
         /\ Phases(rs.ops) = IF rs.halt THEN ResetTruePhases ELSE ResetFalsePhases
         /\ rs.demcr = rs.demcr0
    /\ rs.pc \in {"aircr", "pollReset", "waitHalt"} /\ rs.halt =>
         DEMCR_VC_CORERESET \subseteq rs.demcr

\* C17 witness: reset(true) returned after polling DHCSR more than once, with
\* DEMCR back to a value in which VC_CORERESET is clear.
C17_Witness ==
  /\ rs.pc = "done" /\ rs.res = "return" /\ rs.halt
  /\ rs.polls >= 1 /\ rs.demcr = {24}
  /\ rs.ops[3].val = ArmValue

(***************************************************************************)
(* DAPWrapper life cycle: the constructor, reconnectAsync, disconnectAsync *)
(* and the identity accessors of one wrapper.  The transport, daplink and  *)
(* cortexM objects are numbered in order of construction (0 is the         *)
(* constructor's); dw.claimed holds the transports whose interfaceNumber   *)
(* is defined; -1 stands for undefined.  dw.log lists the calls made on    *)
(* the sub-objects, dw.read the values last read from the FICR.            *)
(***************************************************************************)

DeviceIds == {11, 12}
PageSizes == {1024}
NumPagesValues == {256}

\* The accessors: pageSize and numPages throw while undefined, deviceId
\* returns the field as it is.
pageSize(w) == [throws |-> w._pageSize = -1, value |-> w._pageSize]
numPages(w) == [throws |-> w._numPages = -1, value |-> w._numPages]
deviceId(w) == w._deviceId

\* disconnectAsync's test with opened alone.
TearsDownIfOpened(opened, interfaceDefined) == opened

\* disconnectAsync: `device.opened && transport.interfaceNumber !== undefined`.
TearsDown(opened, interfaceDefined) == opened /\ interfaceDefined

\* disconnectAsync resolved, the fields of the last connection cleared as well.
DisconnectedInvalidating(w, closed) ==
  [w EXCEPT !.opened = ~closed /\ @, !._deviceId = -1, !._pageSize = -1,
            !._numPages = -1]

\* The wrapper after daplink.disconnect() has settled; closed tells whether the
\* device was closed.  No field of the wrapper is assigned.
Disconnected(w, closed) == [w EXCEPT !.opened = ~closed /\ @]

\* reconnectAsync's branch for a later call with cortexM left as it was.
RebuildKeepCortexM(w) ==
  [w EXCEPT !.built = @ + 1, !.transport = w.built + 1, !.daplink = w.built + 1]

\* reconnectAsync's branch for a later call: three new objects.
Rebuild(w) ==
  [w EXCEPT !.built = @ + 1, !.transport = w.built + 1, !.daplink = w.built + 1,
            !.cortexM = w.built + 1]

Objs(w) == <<w.transport, w.daplink, w.cortexM>>

DwEntry(w, op, tears) ==
  [call |-> w.call, op |-> op, objs |-> Objs(w), old |-> w.old,
   opened |-> w.opened, claimed |-> w.transport \in w.claimed,
   prev |-> w.last, tears |-> tears]

DwLog(w, op, tears) == [w EXCEPT !.log = Append(@, DwEntry(w, op, tears))]

\* new DAPWrapper(device, logging); the device may already be open.
DwInit ==
  /\ NoFlash
  /\ wb = WbIdle
  /\ rr = Idle /\ rm = Idle /\ wh = Idle /\ ex = Idle /\ rs = Idle /\ Units2Idle
  /\ \E o \in BOOLEAN :
       dw = [pc |-> "ready", call |-> 0, discs |-> 0,
             initialConnectionComplete |-> FALSE,
             transport |-> 0, daplink |-> 0, cortexM |-> 0, built |-> 0,
             old |-> <<0, 0, 0>>, opened |-> o, claimed |-> {},
             _deviceId |-> -1, _pageSize |-> -1, _numPages |-> -1,
             read |-> <<-1, -1, -1>>, log |-> <<>>, last |-> "none"]

\* daplink.connect() awaited by reconnectAsync.
DwConnect(w) == [DwLog(w, "daplink.connect", FALSE) EXCEPT !.pc = "dlConnect"]

\* reconnectAsync is called.  First call: the flag is set and the constructor's
\* objects are connected.  Later calls: disconnectAsync() is awaited first.
DwReconnectCall ==
  /\ dw.pc = "ready"
  /\ dw.call < MaxReconnects
  /\ LET w == [dw EXCEPT !.call = @ + 1, !.old = Objs(dw)]
     IN dw' =
          IF ~dw.initialConnectionComplete
          THEN DwConnect([w EXCEPT !.initialConnectionComplete = TRUE])
          ELSE IF TearsDown(w.opened, w.transport \in w.claimed)
               THEN [DwLog(w, "disconnectAsync", TRUE) EXCEPT !.pc = "disc"]
               ELSE DwConnect(Rebuild(DwLog(w, "disconnectAsync", FALSE)))
  /\ UNCHANGED <<coreVars, wb, rr, rm, wh, ex, rs, unitVars2>>

\* reconnectAsync: the awaited disconnectAsync() settles; on success the three
\* objects are replaced and daplink.connect() is awaited.
DwReconnectDiscDone ==
  /\ dw.pc = "disc"
  /\ \E ok \in BOOLEAN, closed \in BOOLEAN :
       /\ ok => closed
       /\ dw' =
            IF ok THEN DwConnect(Rebuild([Disconnected(dw, closed) EXCEPT !.last = "tornDown"]))
            ELSE [Disconnected(dw, closed) EXCEPT !.pc = "ready", !.last = "failed"]
  /\ UNCHANGED <<coreVars, wb, rr, rm, wh, ex, rs, unitVars2>>

\* daplink.connect() settles: on success the device is open and the transport
\* has claimed its interface; a failure may come after either.
DwDaplinkConnectDone ==
  /\ dw.pc = "dlConnect"
  /\ \E ok \in BOOLEAN, o \in BOOLEAN, c \in BOOLEAN :
       /\ ok => o /\ c
       /\ c => o
       /\ LET w == [dw EXCEPT !.opened = @ \/ o,
                              !.claimed = IF c THEN @ \cup {dw.transport} ELSE @]
          IN dw' = IF ok THEN [DwLog(w, "cortexM.connect", FALSE) EXCEPT !.pc = "cmConnect"]
                   ELSE [w EXCEPT !.pc = "ready", !.last = "failed"]
  /\ UNCHANGED <<coreVars, wb, rr, rm, wh, ex, rs, unitVars2>>

\* cortexM.connect() settles; the read of FICR.DEVICE_ID_1 is awaited.
DwCortexConnectDone ==
  /\ dw.pc = "cmConnect"
  /\ \E ok \in BOOLEAN :
       dw' = IF ok THEN [DwLog(dw, "readMem32", FALSE) EXCEPT !.pc = "readId"]
             ELSE [dw EXCEPT !.pc = "ready", !.last = "failed"]
  /\ UNCHANGED <<coreVars, wb, rr, rm, wh, ex, rs, unitVars2>>

\* A readMem32WaitOnError of reconnectAsync settles: the field is assigned and
\* the next read awaited, or the call throws with the later fields untouched.
DwReadDone ==
  /\ dw.pc \in {"readId", "readPageSize", "readNumPages"}
  /\ \E ok \in BOOLEAN, id \in DeviceIds, ps \in PageSizes, np \in NumPagesValues :
       dw' =
         IF ~ok THEN [dw EXCEPT !.pc = "ready", !.last = "failed"]
         ELSE CASE dw.pc = "readId" ->
                     [DwLog([dw EXCEPT !._deviceId = id, !.read[1] = id],
                            "readMem32", FALSE) EXCEPT !.pc = "readPageSize"]
                [] dw.pc = "readPageSize" ->
                     [DwLog([dw EXCEPT !._pageSize = ps, !.read[2] = ps],
                            "readMem32", FALSE) EXCEPT !.pc = "readNumPages"]
                [] OTHER ->
                     [dw EXCEPT !._numPages = np, !.read[3] = np,
                                !.pc = "ready", !.last = "connected"]
  /\ UNCHANGED <<coreVars, wb, rr, rm, wh, ex, rs, unitVars2>>

\* disconnectAsync is called directly: daplink.disconnect() is awaited when the
\* test holds, and nothing is done otherwise.
DwDisconnectCall ==
  /\ dw.pc = "ready"
  /\ dw.discs < MaxDisconnects
  /\ LET w == [dw EXCEPT !.discs = @ + 1, !.old = Objs(dw)]
     IN dw' =
          IF TearsDown(w.opened, w.transport \in w.claimed)
          THEN [DwLog(w, "disconnectAsync", TRUE) EXCEPT !.pc = "discOnly"]
          ELSE [DwLog(w, "disconnectAsync", FALSE) EXCEPT !.last = "noop"]
  /\ UNCHANGED <<coreVars, wb, rr, rm, wh, ex, rs, unitVars2>>

\* daplink.disconnect() of a direct disconnectAsync settles.
DwDisconnectDone ==
  /\ dw.pc = "discOnly"
  /\ \E ok \in BOOLEAN, closed \in BOOLEAN :
       /\ ok => closed
       /\ dw' = [Disconnected(dw, closed) EXCEPT
                   !.pc = "ready", !.last = IF ok THEN "tornDown" ELSE "failed"]
  /\ UNCHANGED <<coreVars, wb, rr, rm, wh, ex, rs, unitVars2>>

DwNext ==
  \/ DwReconnectCall
  \/ DwReconnectDiscDone
  \/ DwDaplinkConnectDone
  \/ DwCortexConnectDone
  \/ DwReadDone
  \/ DwDisconnectCall
  \/ DwDisconnectDone

DwSpec == DwInit /\ [][DwNext]_vars

DwActive == dw.pc # "idle"

\* The wrapper is at rest after a disconnectAsync that tore the link down.
AfterTeardown == dw.pc = "ready" /\ dw.last = "tornDown"

\* C18 as stated: after disconnectAsync the accessors throw and deviceId is
\* undefined until the next connect.
C18_InvalidatedOnDisconnect ==
  (DwActive /\ AfterTeardown) =>
    /\ pageSize(dw).throws
    /\ numPages(dw).throws
    /\ deviceId(dw) = -1

\* C18: deviceId, pageSize and numPages are undefined (the accessors throw,
\* deviceId is undefined) until a reconnectAsync has read them; a reconnectAsync
\* that returns leaves all three defined; each holds the value last read for
\* it, and disconnectAsync leaves them as they are.
C18_IdentityKeptAfterDisconnect ==
  DwActive =>
    /\ <<deviceId(dw), pageSize(dw).value, numPages(dw).value>> = dw.read
    /\ pageSize(dw).throws = (dw.read[2] = -1)
    /\ numPages(dw).throws = (dw.read[3] = -1)
    /\ ~dw.initialConnectionComplete => dw.read = <<-1, -1, -1>>
    /\ (dw.pc = "ready" /\ dw.last = "connected") =>
         /\ ~pageSize(dw).throws /\ ~numPages(dw).throws
         /\ deviceId(dw) \in DeviceIds

\* C18 witness: a connected wrapper was torn down by disconnectAsync and its
\* accessors still return the values of the connection.
C18_Witness ==
  /\ DwActive /\ AfterTeardown /\ dw.discs = 1 /\ dw.call = 1
  /\ ~pageSize(dw).throws /\ ~numPages(dw).throws /\ deviceId(dw) = 11

\* C19: the first reconnectAsync connects the constructor's transport, daplink
\* and cortexM and does not disconnect; every later call first calls
\* disconnectAsync (on the objects it started with) and then uses only objects
\* built after it: none of the three it started with is used to connect or read.
C19_ReconnectRebuilds ==
  DwActive =>
    \A i \in 1..Len(dw.log) :
      LET e == dw.log[i] IN
        /\ (e.op # "disconnectAsync" /\ e.call = 1) => e.objs = <<0, 0, 0>>
        /\ (e.op = "daplink.connect" /\ e.call = 1) =>
             (i = 1 \/ dw.log[i - 1].call = 0)
        /\ (e.op # "disconnectAsync" /\ e.call > 1) =>
             \A j \in 1..3 : e.objs[j] # e.old[j] /\ e.objs[j] > e.old[j]
        /\ (e.op = "daplink.connect" /\ e.call > 1) =>
             /\ i > 1
             /\ dw.log[i - 1].op = "disconnectAsync"
             /\ dw.log[i - 1].call = e.call
             /\ dw.log[i - 1].objs = e.old
        /\ e.op = "disconnectAsync" => e.objs = e.old

\* C19 witness: a second reconnectAsync has connected and read through objects
\* built after its disconnect.
C19_Witness ==
  /\ DwActive /\ dw.pc = "ready" /\ dw.last = "connected" /\ dw.call = 2
  /\ Objs(dw) = <<1, 1, 1>>
  /\ \E i \in 1..Len(dw.log) : dw.log[i].op = "disconnectAsync" /\ dw.log[i].tears

\* C20: disconnectAsync calls daplink.disconnect() exactly when the device
\* reports opened and the transport has claimed its interface; on a wrapper
\* that never connected, and again right after a teardown, it does nothing.
C20_DisconnectGuard ==
  DwActive =>
    /\ \A i \in 1..Len(dw.log) :
         LET e == dw.log[i] IN
           e.op = "disconnectAsync" =>
             /\ e.tears = (e.opened /\ e.claimed)
             /\ e.call = 0 => ~e.tears
             /\ e.prev = "tornDown" => ~e.tears
    /\ dw.pc \in {"disc", "discOnly"} => dw.log[Len(dw.log)].tears
    /\ dw.last = "noop" => ~dw.log[Len(dw.log)].tears

\* C20 witness: a disconnectAsync tore the link down and the next one did
\* nothing.
C20_Witness ==
  /\ DwActive /\ dw.pc = "ready" /\ dw.last = "noop" /\ Len(dw.log) >= 2
  /\ dw.log[Len(dw.log)].prev = "tornDown"
  /\ dw.log[Len(dw.log) - 1].tears

(***************************************************************************)
(* PartialFlashing.partialFlashAsync from the checksum table on, page by   *)
(* page: pageAlignBlocks, onlyChanged, the choice of the first path,       *)
(* partialFlashCoreAsync and partialFlashPageAsync.  A page is its target  *)
(* address and the two checksum words of its data; the checksum table      *)
(* holds two words per device page.  pp.log lists the progress calls and   *)
(* the requests that have settled.                                         *)
(***************************************************************************)

\* Checksum word pairs of a page's data.
PageSums == {<<1, 1>>, <<1, 2>>, <<2, 1>>}

\* dapwrapper.pageSize; with the second value the third page lies at 0x10000000.
PpPageSizes == {4096, UicrBase \div 2}

\* pageAlignBlocks(flashBytes, 0, pageSize): one page per pageSize bytes of the
\* image, the k-th at target address (k - 1) * pageSize.
pageAlignBlocks(image, targetAddr, size) ==
  [k \in 1..Len(image) |-> [targetAddr |-> targetAddr + (k - 1) * size, sum |-> image[k]]]

\* The comparison with the two words of the table entry taken in the other order.
SameChecksumSwapped(page, checksums, size) ==
  LET idx == page.targetAddr \div size
  IN checksums[2 * idx + 1] = page.sum[2] /\ checksums[2 * idx + 2] = page.sum[1]

\* Whether the checksum table has the page's two words at the page's index.
SameChecksum(page, checksums, size) ==
  LET idx == page.targetAddr \div size
  IN checksums[2 * idx + 1] = page.sum[1] /\ checksums[2 * idx + 2] = page.sum[2]

\* The changed pages numbered anew from target address 0.
onlyChangedRenumbered(pages, checksums, size) ==
  LET kept == SelectSeq(pages, LAMBDA q : ~SameChecksum(q, checksums, size))
  IN [k \in 1..Len(kept) |-> [kept[k] EXCEPT !.targetAddr = (k - 1) * size]]

\* onlyChanged(aligned, checksums, pageSize): the pages whose checksum differs
\* from the table's entry at their index, as they are and in their order.
onlyChangedPages(pages, checksums, size) ==
  SelectSeq(pages, LAMBDA q : ~SameChecksum(q, checksums, size))

\* partialFlashPageAsync's first test with > for >=.
SkipsPageAbove(targetAddr) == targetAddr > UicrBase

\* partialFlashPageAsync: `if (page.targetAddr >= 0x10000000) return`.
SkipsPage(targetAddr) == targetAddr >= UicrBase

\* `i & 1 ? dataAddr : dataAddr + pageSize` and the other way round: the RAM
\* slot (0 at dataAddr, 1 at dataAddr + pageSize) of the page and of the next.
ThisSlot(i) == IF i % 2 = 1 THEN 0 ELSE 1
NextSlotSame(i) == ThisSlot(i)
NextSlot(i) == IF i % 2 = 1 THEN 1 ELSE 0

\* Every page uploaded by its own step.
UploadsOwnPageAlways(i) == TRUE

\* `if (i === 0)`: only the first page is uploaded by its own step.
UploadsOwnPage(i) == i = 0

PpEntry(op, a, b) == [op |-> op, a |-> a, b |-> b]
PpLogged(w, op, a, b) == [w EXCEPT !.log = Append(@, PpEntry(op, a, b))]

PpInit ==
  /\ NoFlash
  /\ wb = WbIdle
  /\ rr = Idle /\ rm = Idle /\ wh = Idle /\ ex = Idle /\ rs = Idle /\ dw = Idle
  /\ rl = Idle /\ te = Idle /\ cn = Idle /\ wt = Idle /\ df = Idle /\ Units3Idle
  /\ \E n \in 1..MaxImagePages, size \in PpPageSizes :
       \E image \in [1..n -> PageSums], table \in [1..MaxImagePages -> PageSums] :
         pp = [pc |-> "writeBin", pageSize |-> size, image |-> image,
               checksums |-> [j \in 1..(2 * MaxImagePages) |->
                                table[(j + 1) \div 2][2 - (j % 2)]],
               aligned |-> <<>>, changed |-> <<>>, totalPages |-> 0, i |-> 0,
               first |-> "none", fallback |-> FALSE, log |-> <<>>,
               partial |-> "undefined", res |-> "none"]

\* partialFlashCoreAsync's loop from index w.i up to its next await: the
\* progress call, then partialFlashPageAsync, which returns at once for a
\* skipped page; after the last page updateProgress(1, true), `partial = true`
\* and dapwrapper.reset() is awaited.
RECURSIVE PpLoop(_)
PpLoop(w) ==
  IF w.i >= Len(w.changed)
  THEN [PpLogged(w, "progress", 1, 1) EXCEPT !.partial = "true", !.pc = "reset"]
  ELSE LET page == w.changed[w.i + 1]
           v == PpLogged(PpLogged(w, "progress", w.i, Len(w.changed)),
                         "page", page.targetAddr, w.i)
       IN IF SkipsPage(page.targetAddr) THEN PpLoop([v EXCEPT !.i = @ + 1])
          ELSE [v EXCEPT !.pc = IF UploadsOwnPage(w.i) THEN "writeFirst" ELSE "runFlash"]

\* writeBlockAsync(loadAddr, flashPageBIN) settles: the image is page-aligned,
\* the changed pages selected and the first path started.
PpWriteBinDone ==
  /\ pp.pc = "writeBin"
  /\ \E ok \in BOOLEAN :
       pp' =
         IF ~ok THEN [pp EXCEPT !.pc = "done", !.res = "throw"]
         ELSE LET al == pageAlignBlocks(pp.image, 0, pp.pageSize)
                  ch == onlyChangedPages(al, pp.checksums, pp.pageSize)
                  w == [pp EXCEPT !.aligned = al, !.totalPages = Len(al), !.changed = ch]
              IN IF PreferFull(Len(ch), Len(al))
                 THEN [w EXCEPT !.first = "full", !.pc = "full"]
                 ELSE PpLoop([w EXCEPT !.first = "partial"])
  /\ UNCHANGED <<coreVars, wb, rr, rm, wh, ex, rs, dw, rl, te, cn, wt, df, unitVars3>>

\* fullFlashAsync settles, as the first path or as the fallback.
PpFullDone ==
  /\ pp.pc = "full"
  /\ \E ok \in BOOLEAN :
       pp' =
         LET w == PpLogged(pp, "fullFlash", IF ok THEN 1 ELSE 0, -1)
         IN IF ok THEN [w EXCEPT !.partial = "false", !.pc = "reset"]
            ELSE IF pp.fallback THEN [w EXCEPT !.pc = "done", !.res = "throw"]
            ELSE PpLoop([w EXCEPT !.fallback = TRUE, !.i = 0])
  /\ UNCHANGED <<coreVars, wb, rr, rm, wh, ex, rs, dw, rl, te, cn, wt, df, unitVars3>>

\* A request of partialFlashPageAsync settles: the upload of the first page,
\* runFlash, the upload of the next page, waitForHalt.  A failure on the first
\* path starts the full flash, a failure of the fallback is thrown.
PpPageStepDone ==
  /\ pp.pc \in {"writeFirst", "runFlash", "writeNext", "waitHalt"}
  /\ \E ok \in BOOLEAN :
       pp' =
         LET page == pp.changed[pp.i + 1]
             hasNext == pp.i + 2 <= Len(pp.changed)
         IN IF ~ok
            THEN IF pp.fallback THEN [pp EXCEPT !.pc = "done", !.res = "throw"]
                 ELSE [pp EXCEPT !.fallback = TRUE, !.pc = "full"]
            ELSE CASE pp.pc = "writeFirst" ->
                        [PpLogged(pp, "writeBlock", ThisSlot(pp.i), page.targetAddr)
                           EXCEPT !.pc = "runFlash"]
                   [] pp.pc = "runFlash" ->
                        [PpLogged(pp, "runFlash", page.targetAddr, ThisSlot(pp.i))
                           EXCEPT !.pc = IF hasNext THEN "writeNext" ELSE "waitHalt"]
                   [] pp.pc = "writeNext" ->
                        [PpLogged(pp, "writeBlock", NextSlot(pp.i),
                                  pp.changed[pp.i + 2].targetAddr)
                           EXCEPT !.pc = "waitHalt"]
                   [] OTHER ->
                        PpLoop([PpLogged(pp, "waitHalt", page.targetAddr, pp.i)
                                  EXCEPT !.i = @ + 1])
  /\ UNCHANGED <<coreVars, wb, rr, rm, wh, ex, rs, dw, rl, te, cn, wt, df, unitVars3>>

\* dapwrapper.reset() settles; its error is swallowed and `partial` returned.
PpResetDone ==
  /\ pp.pc = "reset"
  /\ \E ok \in BOOLEAN :
       pp' = [PpLogged(pp, "reset", IF ok THEN 1 ELSE 0, -1)
                EXCEPT !.pc = "done", !.res = pp.partial]
  /\ UNCHANGED <<coreVars, wb, rr, rm, wh, ex, rs, dw, rl, te, cn, wt, df, unitVars3>>

PpNext == PpWriteBinDone \/ PpFullDone \/ PpPageStepDone \/ PpResetDone

PpSpec == PpInit /\ [][PpNext]_vars

PpActive == pp.pc \notin {"idle", "writeBin"} /\ ~(pp.pc = "done" /\ pp.first = "none")

\* The log entries with the given request.
PpOps(op) == SelectSeq(pp.log, LAMBDA e : e.op = op)

\* C21: runFlash, the copy of a page from RAM to flash, is never requested with
\* a target address >= 0x10000000, whichever pages the checksums select.
C21_UicrNeverCopied ==
  PpActive =>
    /\ \A k \in 1..Len(pp.log) :
         pp.log[k].op = "runFlash" => pp.log[k].a < UicrBase
    /\ \A k \in 1..Len(pp.log) :
         (pp.log[k].op = "page" /\ pp.log[k].a >= UicrBase) =>
           (k = Len(pp.log) \/ pp.log[k + 1].op = "progress")
    /\ pp.pc \in {"writeFirst", "runFlash", "writeNext", "waitHalt"} =>
         pp.changed[pp.i + 1].targetAddr < UicrBase

\* C21 witness: the changed pages include the page at 0x10000000, the partial
\* write has gone past it and returned, and the pages below it were copied.
C21_Witness ==
  /\ PpActive /\ pp.pc = "done" /\ pp.res = "true"
  /\ \E k \in 1..Len(pp.changed) : pp.changed[k].targetAddr = UicrBase
  /\ \E k \in 1..Len(pp.log) : pp.log[k].op = "page" /\ pp.log[k].a = UicrBase
  /\ Len(PpOps("runFlash")) = Len(pp.changed) - 1
  /\ Len(pp.changed) >= 2

\* a is b with some elements left out.
RECURSIVE IsSubseq(_, _)
IsSubseq(a, b) ==
  IF a = <<>> THEN TRUE
  ELSE IF b = <<>> THEN FALSE
  ELSE IF a[1] = b[1] THEN IsSubseq(Tail(a), Tail(b))
  ELSE IsSubseq(a, Tail(b))

\* The k-th page of the image differs from the table at its index.
PageDiffers(k) ==
  pp.checksums[2 * k - 1] # pp.image[k][1] \/ pp.checksums[2 * k] # pp.image[k][2]

\* C22: the changed pages are a subsequence of the page-aligned sequence, in
\* its order, each with the target address it has there (index * pageSize); a
\* page is among them exactly if its checksum differs; the pages handed to
\* partialFlashPageAsync are the changed pages in order; for three pages of which
\* only the second differs the sequence is that page alone.
C22_ChangedSubsequence ==
  PpActive =>
    /\ Len(pp.aligned) = Len(pp.image)
    /\ \A k \in 1..Len(pp.aligned) : pp.aligned[k].targetAddr = (k - 1) * pp.pageSize
    /\ IsSubseq(pp.changed, pp.aligned)
    /\ \A k \in 1..Len(pp.aligned) :
         PageDiffers(k) = (\E j \in 1..Len(pp.changed) : pp.changed[j] = pp.aligned[k])
    /\ LET handed == PpOps("page")
       IN /\ Len(handed) <= Len(pp.changed)
          /\ \A j \in 1..Len(handed) : handed[j].a = pp.changed[j].targetAddr
    /\ \A k \in 1..Len(pp.aligned) :
         (\A j \in 1..Len(pp.aligned) : PageDiffers(j) = (j = k)) =>
           pp.changed = <<pp.aligned[k]>>

\* C22 witness: of three pages only the second differs, and it has been copied
\* to the second page's address.
C22_Witness ==
  /\ PpActive /\ Len(pp.image) = 3
  /\ ~PageDiffers(1) /\ PageDiffers(2) /\ ~PageDiffers(3)
  /\ pp.pageSize = 4096
  /\ PpOps("runFlash") = <<PpEntry("runFlash", 4096, 1)>>

\* The checksum table equals the checksums of the image's pages.
TableMatches == \A k \in 1..Len(pp.image) : ~PageDiffers(k)

\* C23: when the checksum table equals the checksums of the image's pages no
\* page is selected: the partial path is taken first, nothing is uploaded or
\* copied for a page and no full flash is made, the only progress call is
\* (1, true), and partialFlashAsync returns true.
C23_NothingChanged ==
  (PpActive /\ TableMatches) =>
    /\ pp.changed = <<>>
    /\ pp.first = "partial" /\ ~pp.fallback
    /\ \A k \in 1..Len(pp.log) : pp.log[k].op \in {"progress", "reset"}
    /\ pp.log[1] = PpEntry("progress", 1, 1)
    /\ PpOps("progress") = <<PpEntry("progress", 1, 1)>>
    /\ pp.partial = "true"
    /\ pp.pc \in {"reset", "done"}
    /\ pp.pc = "done" => pp.res = "true"

\* C23 witness: the table matched a three-page image and partialFlashAsync
\* returned true although the closing reset threw.
C23_Witness ==
  /\ PpActive /\ TableMatches /\ Len(pp.image) = 3
  /\ pp.pc = "done" /\ pp.res = "true"
  /\ pp.log[Len(pp.log)] = PpEntry("reset", 0, -1)

(***************************************************************************)
(* rateLimitProgress(minimumProgressIncrement, callback): one wrapper, any *)
(* sequence of calls.  Values are on the grid of Scale units per 1;        *)
(* rl.calls are the calls made to the wrapper, rl.out those it passed on.  *)
(***************************************************************************)

RlValues == {0, Scale \div 3, Scale \div 2, Scale, Scale + 1}
RlMinIncs == {0, Scale \div 2, Scale + 2}

RlCalls ==
  {Call(FALSE, v, b) : v \in RlValues, b \in BOOLEAN} \cup {Call(TRUE, 0, b) : b \in BOOLEAN}

\* `let lastCallValue = -1` and the wrapper returned.
RlInit ==
  /\ NoFlash
  /\ wb = WbIdle
  /\ rr = Idle /\ rm = Idle /\ wh = Idle /\ ex = Idle /\ rs = Idle /\ dw = Idle
  /\ pp = Idle /\ te = Idle /\ cn = Idle /\ wt = Idle /\ df = Idle /\ Units3Idle
  /\ \E inc \in RlMinIncs :
       rl = [pc |-> "ready", minInc |-> inc, lastCallValue |-> -Scale,
             calls |-> <<>>, out |-> <<>>]

\* The wrapper is called with (value, partial).
RlCall ==
  /\ rl.pc = "ready"
  /\ Len(rl.calls) < MaxCalls
  /\ \E c \in RlCalls :
       rl' = IF Forwarded(c.undef, c.value, rl.lastCallValue, rl.minInc)
             THEN [rl EXCEPT !.calls = Append(@, c), !.out = Append(@, c),
                             !.lastCallValue = NextLast(c.undef, c.value)]
             ELSE [rl EXCEPT !.calls = Append(@, c)]
  /\ UNCHANGED <<coreVars, wb, rr, rm, wh, ex, rs, dw, pp, te, cn, wt, df, unitVars3>>

RlNext == RlCall

RlSpec == RlInit /\ [][RlNext]_vars

\* The calls a limiter with increment inc passes on, as C24 words it: base is
\* the last value passed on, -1 at the start and after an undefined call.
RECURSIVE PassedOn(_, _, _)
PassedOn(calls, inc, base) ==
  IF calls = <<>> THEN <<>>
  ELSE LET c == calls[1]
           always == c.undef \/ c.value = 0 \/ c.value = Scale
           pass == always \/ c.value >= base + inc
       IN IF pass
          THEN <<c>> \o PassedOn(Tail(calls), inc, IF c.undef THEN -Scale ELSE c.value)
          ELSE PassedOn(Tail(calls), inc, base)

\* C24: the wrapper passes on every call with undefined, 0 or 1, and a call
\* with another value v exactly if v >= last value passed on + the increment,
\* that value being reset by an undefined call; the calls passed on are calls
\* made, unchanged and in order.
C24_RateLimit ==
  rl.pc # "idle" =>
    /\ rl.out = PassedOn(rl.calls, rl.minInc, -Scale)
    /\ IsSubseq(rl.out, rl.calls)
    /\ \A k \in 1..Len(rl.calls) :
         (rl.calls[k].undef \/ rl.calls[k].value \in {0, Scale}) =>
           Len(SelectSeq(SubSeq(rl.calls, 1, k), LAMBDA c : c = rl.calls[k])) <=
             Len(SelectSeq(rl.out, LAMBDA c : c = rl.calls[k]))

\* C24 witness: a value was passed on, the same value again was dropped as it
\* is below last + increment, and the undefined call after it was passed on.
C24_Witness ==
  /\ rl.pc # "idle" /\ rl.minInc = Scale \div 2
  /\ rl.calls = <<Call(FALSE, Scale \div 2, TRUE), Call(FALSE, Scale \div 2, TRUE),
                  Call(TRUE, 0, TRUE)>>
  /\ rl.out = <<Call(FALSE, Scale \div 2, TRUE), Call(TRUE, 0, TRUE)>>

(***************************************************************************)
(* TrackingEventTarget (lib/events.ts) on top of the platform EventTarget. *)
(* te.listeners is the platform's listener list, te.regs the Registration  *)
(* arrays of activeEventTracking with te.keys the keys of that Map, te.log *)
(* the eventActivated / eventDeactivated calls.  The callback "s" calls    *)
(* stopImmediatePropagation, "f" does nothing, "null" stands for null.     *)
(***************************************************************************)

TeTypes == {"foo", "bar"}
TeCallbacks == {"f", "s", "null"}

Opt(obj, capture, once, passive) ==
  [obj |-> obj, capture |-> capture, once |-> once, passive |-> passive]

\* false, true, {once: true}, {capture: true, once: true}, {passive: true},
\* {capture: true}; an absent options argument is `options ?? false`.
TeOptions ==
  {Opt(FALSE, FALSE, FALSE, FALSE), Opt(FALSE, TRUE, FALSE, FALSE),
   Opt(TRUE, FALSE, TRUE, FALSE), Opt(TRUE, TRUE, TRUE, FALSE),
   Opt(TRUE, FALSE, FALSE, TRUE), Opt(TRUE, TRUE, FALSE, FALSE)}

\* Registration.isOnce and Registration.eq (eqUseCapture).
isOnce(r) == r.options.obj /\ r.options.once
eq(r, other) == other.callback = r.callback /\ r.options.capture = other.options.capture

Registration(callback, options) == [callback |-> callback, options |-> options]

\* The platform's EventTarget: a listener is its type, callback and capture
\* flag; once is kept from the call that added it.
Listener(type, callback, options) ==
  [type |-> type, callback |-> callback, capture |-> options.capture,
   once |-> options.once]

SameListener(a, b) ==
  a.type = b.type /\ a.callback = b.callback /\ a.capture = b.capture

PlatformAdd(ls, type, callback, options) ==
  LET l == Listener(type, callback, options)
  IN IF callback = "null" \/ \E k \in 1..Len(ls) : SameListener(ls[k], l) THEN ls
     ELSE Append(ls, l)

PlatformRemove(ls, type, callback, options) ==
  SelectSeq(ls, LAMBDA x : ~SameListener(x, Listener(type, callback, options)))

\* Dispatch over the listeners registered for the type when it starts: a once
\* listener is removed as it is invoked, and nothing after a listener that
\* stops immediate propagation is invoked.
RECURSIVE PlatformInvoke(_, _)
PlatformInvoke(snap, ls) ==
  IF snap = <<>> THEN ls
  ELSE LET l == snap[1]
           rest == IF l.once THEN SelectSeq(ls, LAMBDA x : ~SameListener(x, l)) ELSE ls
       IN IF l.callback = "s" THEN rest ELSE PlatformInvoke(Tail(snap), rest)

PlatformDispatch(ls, type) ==
  PlatformInvoke(SelectSeq(ls, LAMBDA x : x.type = type), ls)

TeLogged(t, call, type) == [t EXCEPT !.log = Append(@, [call |-> call, type |-> type])]

\* filterRegistrations(type, predicate), keep being the filtered array.
filterRegistrations(t, type, keep) ==
  IF Len(keep) = 0
  THEN TeLogged([t EXCEPT !.regs[type] = <<>>, !.keys = @ \ {type}],
                "eventDeactivated", type)
  ELSE [t EXCEPT !.regs[type] = keep, !.keys = @ \cup {type}]

getActiveEvents(t) == t.keys

TeInit ==
  /\ NoFlash
  /\ wb = WbIdle
  /\ rr = Idle /\ rm = Idle /\ wh = Idle /\ ex = Idle /\ rs = Idle /\ dw = Idle
  /\ pp = Idle /\ rl = Idle /\ cn = Idle /\ wt = Idle /\ df = Idle /\ Units3Idle
  /\ te = [pc |-> "ready", ops |-> 0, listeners |-> <<>>,
           regs |-> [type \in TeTypes |-> <<>>], keys |-> {}, log |-> <<>>]

\* addEventListener(type, callback, options).
TeAdd ==
  /\ te.pc = "ready" /\ te.ops < MaxTeOps
  /\ \E type \in TeTypes, callback \in TeCallbacks, options \in TeOptions :
       LET registrations == IF type \in te.keys THEN te.regs[type] ELSE <<>>
           wasEmpty == Len(registrations) = 0
           registration == Registration(callback, options)
           found == \E k \in 1..Len(registrations) : eq(registrations[k], registration)
           t0 == [te EXCEPT !.ops = @ + 1,
                            !.listeners = PlatformAdd(@, type, callback, options)]
           t1 == [t0 EXCEPT !.regs[type] = Append(registrations, registration),
                            !.keys = @ \cup {type}]
       IN te' = IF callback = "null" \/ found THEN t0
                ELSE IF wasEmpty THEN TeLogged(t1, "eventActivated", type)
                ELSE t1
  /\ UNCHANGED <<coreVars, wb, rr, rm, wh, ex, rs, dw, pp, rl, cn, wt, df, unitVars3>>

\* removeEventListener(type, callback, options).
TeRemove ==
  /\ te.pc = "ready" /\ te.ops < MaxTeOps
  /\ \E type \in TeTypes, callback \in TeCallbacks, options \in TeOptions :
       LET registration == Registration(callback, options)
           registrations == IF type \in te.keys THEN te.regs[type] ELSE <<>>
           t0 == [te EXCEPT !.ops = @ + 1,
                            !.listeners = PlatformRemove(@, type, callback, options)]
       IN te' = IF callback = "null" THEN t0
                ELSE filterRegistrations(t0, type,
                       SelectSeq(registrations, LAMBDA r : ~eq(r, registration)))
  /\ UNCHANGED <<coreVars, wb, rr, rm, wh, ex, rs, dw, pp, rl, cn, wt, df, unitVars3>>

\* dispatchEvent(event): super.dispatchEvent, then the once registrations of
\* the event's type are dropped.
TeDispatch ==
  /\ te.pc = "ready" /\ te.ops < MaxTeOps
  /\ \E type \in TeTypes :
       LET registrations == IF type \in te.keys THEN te.regs[type] ELSE <<>>
           t0 == [te EXCEPT !.ops = @ + 1, !.listeners = PlatformDispatch(@, type)]
       IN te' = filterRegistrations(t0, type,
                  SelectSeq(registrations, LAMBDA r : ~isOnce(r)))
  /\ UNCHANGED <<coreVars, wb, rr, rm, wh, ex, rs, dw, pp, rl, cn, wt, df, unitVars3>>

TeNext == TeAdd \/ TeRemove \/ TeDispatch

TeSpec == TeInit /\ [][TeNext]_vars

TeActive == te.pc # "idle"

\* The eventActivated / eventDeactivated calls made for a type, in order.
TeCallsFor(type) == SelectSeq(te.log, LAMBDA e : e.type = type)

\* C25: per type the calls alternate, eventActivated first, so the last one
\* tells whether the type has a registration; getActiveEvents returns the
\* types that have one.
C25_ActivationAlternates ==
  TeActive =>
    \A type \in TeTypes :
      LET calls == TeCallsFor(type)
      IN /\ \A k \in 1..Len(calls) :
              calls[k].call = IF k % 2 = 1 THEN "eventActivated" ELSE "eventDeactivated"
         /\ (Len(te.regs[type]) > 0) = (Len(calls) % 2 = 1)
         /\ (type \in getActiveEvents(te)) = (Len(te.regs[type]) > 0)

\* C26: tracking and platform agree: per type the tracked registrations are
\* the platform's listeners by callback and capture flag, each tracked once, so
\* a type is reported active exactly if a dispatch would invoke a listener.
C26_TrackingMatchesPlatform ==
  TeActive =>
    \A type \in TeTypes :
      /\ (type \in getActiveEvents(te)) =
           (\E k \in 1..Len(te.listeners) : te.listeners[k].type = type)
      /\ {<<te.regs[type][k].callback, te.regs[type][k].options.capture>> :
            k \in 1..Len(te.regs[type])} =
         {<<te.listeners[k].callback, te.listeners[k].capture>> :
            k \in {j \in 1..Len(te.listeners) : te.listeners[j].type = type}}
      /\ \A j, k \in 1..Len(te.regs[type]) :
           eq(te.regs[type][j], te.regs[type][k]) => j = k

\* ---------------------------------------------------------------------------
\* MicrobitWebUSBConnectionImpl (usb.ts): status, connection and the errors of
\* connect(), flash() and serialWrite().  One public call runs at a time; the
\* USB "disconnect" event of the browser may arrive at any await.
\* ---------------------------------------------------------------------------

\* Public calls made on one connection object.
MaxCnCalls == 3
\* USB disconnect events delivered for the selected device.
MaxUnplugs == 1

\* A thrown value: what typeof gives, whether it is null or undefined, its
\* class (instanceof), and its message, name and code properties.
Thrown(typeof, nullish, cls, message, name, code) ==
  [typeof |-> typeof, nullish |-> nullish, cls |-> cls, message |-> message,
   name |-> name, code |-> code]

NoThrown == Thrown("none", FALSE, "none", "", "", "none")
MustBeConnected == Thrown("object", FALSE, "Error", "Must be connected now", "Error", "none")

\* Values an awaited step can throw, other than a FlashDataError.
ThrownValues ==
  { Thrown("object", FALSE, "DeviceError", "", "Error", "device-disconnected"),
    Thrown("object", FALSE, "TimeoutError", "", "Error", "none"),
    Thrown("object", FALSE, "Error", "No valid interfaces found", "Error", "none"),
    Thrown("object", FALSE, "Error", "No device selected", "NotFoundError", "none"),
    Thrown("object", FALSE, "Error", "Unable to claim interface", "Error", "none"),
    Thrown("object", FALSE, "Error", "", "device-disconnected", "none"),
    Thrown("object", FALSE, "Error", "Flash error", "Error", "none"),
    Thrown("string", FALSE, "none", "", "", "none"),
    Thrown("undefined", TRUE, "none", "", "", "none"),
    Thrown("object", TRUE, "none", "", "", "none") }

\* The data source of flash() reports bad data with a FlashDataError.
FlashDataErrorValue == Thrown("object", FALSE, "FlashDataError", "bad hex", "Error", "none")

DeviceErrorCodes ==
  {"no-device-selected", "update-req", "clear-connect", "device-disconnected",
   "timeout-error", "reconnect-microbit", "background-comms-error", "service-missing"}

DeviceErrorOf(code) == [cls |-> "DeviceError", code |-> code]
\* Reading a property of null or undefined throws a TypeError.
PropertyReadOfNullish == [cls |-> "TypeError", code |-> "none"]

genericErrorSuggestingReconnect(e) ==
  IF e.nullish THEN PropertyReadOfNullish ELSE DeviceErrorOf("reconnect-microbit")

enrichedError(error) ==
  IF error.cls = "DeviceError" THEN DeviceErrorOf(error.code)
  ELSE IF error.cls = "TimeoutError" THEN DeviceErrorOf("timeout-error")
  ELSE IF error.typeof = "object"
    THEN IF error.nullish THEN PropertyReadOfNullish
         ELSE IF error.message = "No valid interfaces found" THEN DeviceErrorOf("update-req")
         ELSE IF error.message = "No device selected" THEN DeviceErrorOf("no-device-selected")
         ELSE IF error.message = "Unable to claim interface" THEN DeviceErrorOf("clear-connect")
         ELSE IF error.name = "device-disconnected" THEN DeviceErrorOf("device-disconnected")
         ELSE genericErrorSuggestingReconnect(error)
  ELSE genericErrorSuggestingReconnect(error)

\* setStatus without the event.
setStatusSilently(c, newStatus) == [c EXCEPT !.status = newStatus]

\* setStatus: the only assignment of status after construction.
setStatus(c, newStatus) ==
  [c EXCEPT !.status = newStatus, !.events = Append(@, newStatus)]

\* What a settled call leaves behind, as its caller sees it on settling.
Settled(c, state, cls, code) ==
  [c EXCEPT !.pc = "ready", !.flashing = FALSE,
            !.res = [state |-> state, cls |-> cls, code |-> code,
                     status |-> c.status, connection |-> c.connection,
                     event |-> IF c.events = <<>> THEN "none"
                               ELSE c.events[Len(c.events)]]]

Resolve(c) == Settled(c, "resolved", "none", "none")
Reject(c, r) == Settled(c, "rejected", r.cls, r.code)

\* The finally block of disconnect().
DisconnectFinally(c) == setStatus([c EXCEPT !.connection = FALSE], "DISCONNECTED")

\* withEnrichedErrors: the errors rethrown as they are.
Rethrows(e) == e.cls = "FlashDataError"

\* The code that follows the completion of disconnect(): the rest of the catch
\* block of withEnrichedErrors, the rest of clearDevice(), or nothing.
CnAfterDisconnect(c) ==
  LET d == DisconnectFinally(c)
  IN IF c.e # NoThrown
       THEN Reject([d EXCEPT !.tornDown = TRUE], enrichedError(c.e))
     ELSE IF c.call = "clearDevice"
       THEN Resolve(setStatus([d EXCEPT !.device = FALSE], "NO_AUTHORIZED_DEVICE"))
     ELSE Resolve(d)

\* disconnect(): the teardown is awaited only if there is a connection.
CnDisconnect(c) ==
  IF c.connection THEN [c EXCEPT !.pc = "teardown"] ELSE CnAfterDisconnect(c)

\* The catch block of withEnrichedErrors.
Caught(c, error) ==
  IF Rethrows(error)
    THEN Reject([c EXCEPT !.e = error], [cls |-> error.cls, code |-> error.code])
    ELSE CnDisconnect([c EXCEPT !.e = error])

\* connectInternal up to its first await.
connectInternal(c) ==
  IF ~c.connection /\ c.device THEN [c EXCEPT !.connection = TRUE, !.pc = "reconnect"]
  ELSE IF ~c.connection THEN [c EXCEPT !.pc = "requestDevice"]
  ELSE [c EXCEPT !.pc = "reconnect"]

CnInit ==
  /\ NoFlash
  /\ wb = WbIdle
  /\ rr = Idle /\ rm = Idle /\ wh = Idle /\ ex = Idle /\ rs = Idle /\ dw = Idle
  /\ pp = Idle /\ rl = Idle /\ te = Idle /\ wt = Idle /\ df = Idle /\ Units3Idle
  /\ \E initial \in {"NO_AUTHORIZED_DEVICE", "NOT_SUPPORTED"} :
       cn = [pc |-> "ready", call |-> "none", initial |-> initial,
             status |-> initial, device |-> FALSE, connection |-> FALSE,
             events |-> <<>>, flashing |-> FALSE, e |-> NoThrown,
             pending |-> NoThrown, tornDown |-> FALSE, teardownThrew |-> FALSE,
             calls |-> 0, unplugs |-> 0,
             res |-> [state |-> "none", cls |-> "none", code |-> "none",
                      status |-> initial, connection |-> FALSE, event |-> "none"]]

\* A public method is called and runs to its first await.
CnCall ==
  /\ cn.pc = "ready"
  /\ cn.calls < MaxCnCalls
  /\ \E op \in {"connect", "flash", "serialWrite", "disconnect", "clearDevice"} :
       LET c == [cn EXCEPT !.call = op, !.calls = @ + 1, !.e = NoThrown,
                           !.pending = NoThrown, !.tornDown = FALSE,
                           !.teardownThrew = FALSE, !.res.state = "none"]
       IN cn' = CASE op = "connect" -> connectInternal(c)
                  [] op = "flash" -> [c EXCEPT !.flashing = TRUE, !.pc = "stopSerial"]
                  [] op = "serialWrite" ->
                       IF c.connection THEN [c EXCEPT !.pc = "serialWrite"] ELSE Resolve(c)
                  [] OTHER -> CnDisconnect(c)
  /\ UNCHANGED <<coreVars, wb, rr, rm, wh, ex, rs, dw, pp, rl, te, wt, df, unitVars3>>

\* chooseDevice: navigator.usb.requestDevice settles.
CnRequestDeviceDone ==
  /\ cn.pc = "requestDevice"
  /\ \/ cn' = [cn EXCEPT !.device = TRUE, !.connection = TRUE, !.pc = "reconnect"]
     \/ \E error \in ThrownValues : cn' = Caught(cn, error)
  /\ UNCHANGED <<coreVars, wb, rr, rm, wh, ex, rs, dw, pp, rl, te, wt, df, unitVars3>>

\* withTimeout(connection.reconnectAsync(), 10_000) settles; the rest of
\* connectInternal, then of connect() or of flashInternal up to dataSource.
CnReconnectDone ==
  /\ cn.pc = "reconnect"
  /\ \/ LET c == setStatus(cn, "CONNECTED")
        IN cn' = IF cn.call = "connect" THEN Resolve(c)
                 ELSE IF ~c.connection THEN Caught(c, MustBeConnected)
                 ELSE [c EXCEPT !.pc = "dataSource"]
     \/ \E error \in ThrownValues : cn' = Caught(cn, error)
  /\ UNCHANGED <<coreVars, wb, rr, rm, wh, ex, rs, dw, pp, rl, te, wt, df, unitVars3>>

\* An awaited step of flashInternal or serialWrite settles.  An error of the
\* flash itself is kept while the finally block runs, and an error of the
\* finally block takes its place.
CnStepDone ==
  /\ cn.pc \in {"stopSerial", "dataSource", "flashAsync", "afterFlash", "serialWrite"}
  /\ \/ cn' = CASE cn.pc = "stopSerial" -> connectInternal(cn)
                [] cn.pc = "dataSource" -> [cn EXCEPT !.pc = "flashAsync"]
                [] cn.pc = "flashAsync" -> [cn EXCEPT !.pc = "afterFlash"]
                [] cn.pc = "afterFlash" ->
                     IF cn.pending = NoThrown THEN Resolve(cn) ELSE Caught(cn, cn.pending)
                [] OTHER -> Resolve(cn)
     \/ \E error \in ThrownValues \cup {FlashDataErrorValue} :
          /\ error = FlashDataErrorValue => cn.pc = "dataSource"
          /\ cn' = IF cn.pc = "flashAsync"
                   THEN [cn EXCEPT !.pc = "afterFlash", !.pending = error]
                   ELSE Caught(cn, error)
  /\ UNCHANGED <<coreVars, wb, rr, rm, wh, ex, rs, dw, pp, rl, te, wt, df, unitVars3>>

\* The teardown awaited by disconnect() settles; an error is logged and
\* swallowed, and the finally block runs either way.
CnTeardownDone ==
  /\ cn.pc = "teardown"
  /\ \E threw \in BOOLEAN : cn' = CnAfterDisconnect([cn EXCEPT !.teardownThrew = threw])
  /\ UNCHANGED <<coreVars, wb, rr, rm, wh, ex, rs, dw, pp, rl, te, wt, df, unitVars3>>

\* handleDisconnect: the browser reports that the selected device is gone.
CnUsbDisconnect ==
  /\ cn.pc # "idle"
  /\ cn.device
  /\ cn.unplugs < MaxUnplugs
  /\ cn' = setStatus([cn EXCEPT !.connection = FALSE, !.device = FALSE,
                                !.unplugs = @ + 1], "NO_AUTHORIZED_DEVICE")
  /\ UNCHANGED <<coreVars, wb, rr, rm, wh, ex, rs, dw, pp, rl, te, wt, df, unitVars3>>

CnNext ==
  \/ CnCall
  \/ CnRequestDeviceDone
  \/ CnReconnectDone
  \/ CnStepDone
  \/ CnTeardownDone
  \/ CnUsbDisconnect

CnSpec == CnInit /\ [][CnNext]_vars

CnActive == cn.pc # "idle"

\* C27: status is the status of the last status event (the initial status
\* before any event); connect() resolves with status CONNECTED just
\* announced; disconnect() always resolves, with status DISCONNECTED just
\* announced and no connection, whether or not the teardown threw.
C27_StatusFollowsEvents ==
  CnActive =>
    /\ cn.status = IF cn.events = <<>> THEN cn.initial ELSE cn.events[Len(cn.events)]
    /\ (cn.call = "connect" /\ cn.res.state = "resolved") =>
         cn.res.status = "CONNECTED" /\ cn.res.event = "CONNECTED"
    /\ (cn.call = "disconnect" /\ cn.res.state # "none") =>
         /\ cn.res.state = "resolved"
         /\ cn.res.status = "DISCONNECTED"
         /\ cn.res.event = "DISCONNECTED"
         /\ ~cn.res.connection

\* A connection was made and then disconnect() finished although its
\* teardown threw.
C27_Witness ==
  /\ CnActive
  /\ cn.call = "disconnect" /\ cn.res.state = "resolved" /\ cn.teardownThrew
  /\ \E k \in 1..Len(cn.events) : cn.events[k] = "CONNECTED"

\* C28: a rejected connect(), flash() or serialWrite() either rethrows a
\* FlashDataError as it is, without disconnecting, or has cleared the
\* connection and set status DISCONNECTED and rejects with a DeviceError
\* whose code is one of the defined codes.
C28_FailureTearsDown ==
  (CnActive /\ cn.call \in {"connect", "flash", "serialWrite"} /\ cn.res.state = "rejected") =>
    IF cn.e.cls = "FlashDataError"
    THEN cn.res.cls = "FlashDataError" /\ ~cn.tornDown
    ELSE /\ cn.tornDown
         /\ ~cn.res.connection
         /\ cn.res.status = "DISCONNECTED"
         /\ cn.res.cls = "DeviceError"
         /\ cn.res.code \in DeviceErrorCodes

\* ---------------------------------------------------------------------------
\* applyDeviceFilters (usb.ts): the WebUSB device filter applied to the devices
\* the browser already allows.  An absent field is -1.
\* ---------------------------------------------------------------------------

Alternate(interfaceClass, interfaceSubclass, interfaceProtocol) ==
  [interfaceClass |-> interfaceClass, interfaceSubclass |-> interfaceSubclass,
   interfaceProtocol |-> interfaceProtocol]

\* The interfaces of a configuration, each a sequence of alternates.
DfInterfaces ==
  { <<>>,
    << <<Alternate(2, 2, 0)>> >>,
    << <<Alternate(255, 2, 0)>> >>,
    << <<Alternate(2, 2, 0)>>, <<Alternate(255, 3, 0), Alternate(3, 2, 1)>> >> }

DfDevices ==
  [vendorId : {3368, 9025}, productId : {516}, serialNumber : {7},
   hasConfiguration : BOOLEAN, interfaces : DfInterfaces]

DfFilters ==
  [vendorId : {-1, 0, 3368}, productId : {-1, 516}, serialNumber : {-1, 8},
   classCode : {-1, 255}, subclassCode : {-1, 2}, protocolCode : {-1, 0}]

\* The default filter of the connection and two more, for lists of two.
DfListedFilters ==
  { f \in DfFilters :
      /\ f.serialNumber = -1 /\ f.subclassCode = -1 /\ f.protocolCode = -1
      /\ f.vendorId # 0 /\ f.productId = 516 }

DfFilterLists ==
  {<<>>} \cup {<<f>> : f \in DfFilters}
         \cup {<<f, g>> : f \in DfListedFilters, g \in DfListedFilters}

\* JavaScript truthiness of an optional number: absent and 0 are falsy.
Truthy(v) == v # -1 /\ v # 0

hasMatchingInterface(device, filter) ==
  IF filter.classCode = -1 /\ filter.subclassCode = -1 /\ filter.protocolCode = -1
  THEN TRUE
  ELSE IF ~device.hasConfiguration THEN FALSE
  ELSE \E i \in 1..Len(device.interfaces) :
         \E a \in 1..Len(device.interfaces[i]) :
           LET alternate == device.interfaces[i][a]
               classCodeNotMatch ==
                 filter.classCode # -1 /\ alternate.interfaceClass # filter.classCode
               subClassCodeNotMatch ==
                 filter.subclassCode # -1 /\ alternate.interfaceSubclass # filter.subclassCode
               protocolCodeNotMatch ==
                 filter.protocolCode # -1 /\ alternate.interfaceProtocol # filter.protocolCode
           IN ~classCodeNotMatch \/ ~subClassCodeNotMatch \/ ~protocolCodeNotMatch

matchFilter(device, filter) ==
  IF Truthy(filter.vendorId) /\ device.vendorId # filter.vendorId THEN FALSE
  ELSE IF Truthy(filter.productId) /\ device.productId # filter.productId THEN FALSE
  ELSE IF Truthy(filter.serialNumber) /\ device.serialNumber # filter.serialNumber THEN FALSE
  ELSE hasMatchingInterface(device, filter)

applyDeviceFilters(device, filters, exclusionFilters) ==
  /\ \/ Len(filters) = 0
     \/ \E k \in 1..Len(filters) : matchFilter(device, filters[k])
  /\ \/ Len(exclusionFilters) = 0
     \/ \A k \in 1..Len(exclusionFilters) : ~matchFilter(device, exclusionFilters[k])

DfInit ==
  /\ NoFlash
  /\ wb = WbIdle
  /\ rr = Idle /\ rm = Idle /\ wh = Idle /\ ex = Idle /\ rs = Idle /\ dw = Idle
  /\ pp = Idle /\ rl = Idle /\ te = Idle /\ cn = Idle /\ wt = Idle /\ Units3Idle
  /\ \E device \in DfDevices, filters \in DfFilterLists, exclusionFilters \in DfFilterLists :
       df = [pc |-> "ready", device |-> device, filters |-> filters,
             exclusionFilters |-> exclusionFilters, result |-> FALSE]

DfApply ==
  /\ df.pc = "ready"
  /\ df' = [df EXCEPT !.pc = "done",
                      !.result = applyDeviceFilters(df.device, df.filters, df.exclusionFilters)]
  /\ UNCHANGED <<coreVars, wb, rr, rm, wh, ex, rs, dw, pp, rl, te, cn, wt, unitVars3>>

DfNext == DfApply

DfSpec == DfInit /\ [][DfNext]_vars

\* A filter matches as the specification words it: every field it gives
\* equals the device's, the three interface codes on one alternate.
AllGivenFieldsEqual(device, filter) ==
  /\ filter.vendorId # -1 => device.vendorId = filter.vendorId
  /\ filter.productId # -1 => device.productId = filter.productId
  /\ filter.serialNumber # -1 => device.serialNumber = filter.serialNumber
  /\ \/ filter.classCode = -1 /\ filter.subclassCode = -1 /\ filter.protocolCode = -1
     \/ /\ device.hasConfiguration
        /\ \E i \in 1..Len(device.interfaces) :
             \E a \in 1..Len(device.interfaces[i]) :
               /\ filter.classCode # -1 =>
                    device.interfaces[i][a].interfaceClass = filter.classCode
               /\ filter.subclassCode # -1 =>
                    device.interfaces[i][a].interfaceSubclass = filter.subclassCode
               /\ filter.protocolCode # -1 =>
                    device.interfaces[i][a].interfaceProtocol = filter.protocolCode

\* C30: the result is true exactly if the filter list is empty or has a
\* filter that matches, and no exclusion filter matches, where a filter
\* matches only if every field it gives equals the device's.
C30_FilterSemantics ==
  df.pc = "done" =>
    df.result =
      (/\ \/ df.filters = <<>>
          \/ \E k \in 1..Len(df.filters) : AllGivenFieldsEqual(df.device, df.filters[k])
       /\ \A k \in 1..Len(df.exclusionFilters) :
            ~AllGivenFieldsEqual(df.device, df.exclusionFilters[k]))

\* ---------------------------------------------------------------------------
\* withTimeout(p, ms) (async-util.ts): a race between the promise p and a timer
\* of ms milliseconds that rejects with a TimeoutError.  Time is counted in
\* ticks of one millisecond; the timer fires in the tick in which it is due.
\* ---------------------------------------------------------------------------

\* Largest timeout passed to withTimeout, in ticks.
MaxTimeoutMs == 3

WtPending == [kind |-> "pending", class |-> "none", message |-> ""]
WtTimeout == [kind |-> "reject", class |-> TimeoutErrorValue.class,
              message |-> TimeoutErrorValue.message]

\* What the promise p can settle with: a value, an error of its own, or a
\* TimeoutError of an inner wait.
WtSettlements ==
  { [kind |-> "resolve", class |-> "value", message |-> "foo"],
    [kind |-> "resolve", class |-> "value", message |-> "bar"],
    [kind |-> "reject", class |-> "Error", message |-> "failed"],
    WtTimeout }

\* A race in which a later settlement replaces the earlier one.
RaceLastWins(outcome, settlement) == settlement

\* A promise settles once: the race takes the first settlement.
Race(outcome, settlement) == IF outcome = WtPending THEN settlement ELSE outcome

WtInit ==
  /\ NoFlash
  /\ wb = WbIdle
  /\ rr = Idle /\ rm = Idle /\ wh = Idle /\ ex = Idle /\ rs = Idle /\ dw = Idle
  /\ pp = Idle /\ rl = Idle /\ te = Idle /\ cn = Idle /\ df = Idle /\ Units3Idle
  /\ \E ms \in 0..MaxTimeoutMs :
       wt = [pc |-> "ready", ms |-> ms, now |-> 0, p |-> WtPending,
             timerFired |-> FALSE, first |-> "none", outcome |-> WtPending,
             changes |-> 0]

\* withTimeout(p, ms) is called: the timer is started.
WtCall ==
  /\ wt.pc = "ready"
  /\ wt' = [wt EXCEPT !.pc = "racing"]
  /\ UNCHANGED <<coreVars, wb, rr, rm, wh, ex, rs, dw, pp, rl, te, cn, df, unitVars3>>

\* A millisecond passes; the tick in which the timer is due does not end
\* before the timer has fired.
WtTick ==
  /\ wt.pc = "racing"
  /\ wt.now <= MaxTimeoutMs
  /\ wt.now < wt.ms \/ wt.timerFired
  /\ wt' = [wt EXCEPT !.now = @ + 1]
  /\ UNCHANGED <<coreVars, wb, rr, rm, wh, ex, rs, dw, pp, rl, te, cn, df, unitVars3>>

\* The promise p settles.
WtPromiseSettles ==
  /\ wt.pc = "racing"
  /\ wt.p = WtPending
  /\ \E s \in WtSettlements :
       wt' = [wt EXCEPT !.p = s,
                        !.first = IF @ = "none" THEN "p" ELSE @,
                        !.outcome = Race(@, s),
                        !.changes = IF Race(wt.outcome, s) # wt.outcome THEN @ + 1 ELSE @]
  /\ UNCHANGED <<coreVars, wb, rr, rm, wh, ex, rs, dw, pp, rl, te, cn, df, unitVars3>>

\* The timer fires.
WtTimerFires ==
  /\ wt.pc = "racing"
  /\ ~wt.timerFired
  /\ wt.now >= wt.ms
  /\ wt' = [wt EXCEPT !.timerFired = TRUE,
                      !.first = IF @ = "none" THEN "timer" ELSE @,
                      !.outcome = Race(@, WtTimeout),
                      !.changes = IF Race(wt.outcome, WtTimeout) # wt.outcome
                                  THEN @ + 1 ELSE @]
  /\ UNCHANGED <<coreVars, wb, rr, rm, wh, ex, rs, dw, pp, rl, te, cn, df, unitVars3>>

WtNext == WtCall \/ WtTick \/ WtPromiseSettles \/ WtTimerFires

WtSpec == WtInit /\ [][WtNext]_vars

\* C29: the outcome is p's value if p resolved before the timer fired, a
\* TimeoutError if the timer fired while p had not settled, which has
\* happened once ms milliseconds are over even if p never settles; the
\* outcome is settled at most once.
C29_WithTimeout ==
  wt.pc = "racing" =>
    /\ (wt.first = "p" /\ wt.p.kind = "resolve") => wt.outcome = wt.p
    /\ wt.first = "timer" => wt.outcome = WtTimeout
    /\ wt.now > wt.ms => wt.outcome # WtPending
    /\ (wt.now > wt.ms /\ wt.p = WtPending) => wt.outcome = WtTimeout
    /\ wt.changes <= 1

\* The timer won and p resolved afterwards: the TimeoutError stays.
C29_Witness ==
  /\ wt.pc = "racing"
  /\ wt.first = "timer" /\ wt.p.kind = "resolve" /\ wt.now > wt.ms
  /\ wt.outcome = WtTimeout

(***************************************************************************)
(* The order of the requests of one partial write and the RAM slots they   *)
(* use (PpSpec).                                                           *)
(***************************************************************************)

PageStepOps == {"page", "writeBlock", "runFlash", "waitHalt"}

\* The entries of pp.log made by partialFlashCoreAsync: those before the full
\* flash if the partial write came first, those after it otherwise.
PartialWriteLog ==
  LET full == {k \in 1..Len(pp.log) : pp.log[k].op = "fullFlash"}
      seg == IF full = {} THEN pp.log
             ELSE LET f == CHOOSE k \in full : TRUE
                  IN IF pp.first = "partial" THEN SubSeq(pp.log, 1, f - 1)
                     ELSE SubSeq(pp.log, f + 1, Len(pp.log))
  IN SelectSeq(seg, LAMBDA e : e.op \in PageStepOps)

\* A request and the target address of the page it is made for.
ForPage(e) == <<e.op, IF e.op = "writeBlock" THEN e.b ELSE e.a>>

\* The requests of a partial write of pages[k..], in order: the page is taken
\* up, the first page uploaded, the copy started, the next page uploaded, the
\* halt awaited.  With skipUicr a page at or above 0x10000000 is only taken up.
RECURSIVE PipelineOrder(_, _, _)
PipelineOrder(pages, k, skipUicr) ==
  IF k > Len(pages) THEN <<>>
  ELSE LET p == pages[k].targetAddr
           steps ==
             IF skipUicr /\ p >= UicrBase THEN <<>>
             ELSE (IF k = 1 THEN << <<"writeBlock", p>> >> ELSE <<>>)
                  \o << <<"runFlash", p>> >>
                  \o (IF k < Len(pages)
                      THEN << <<"writeBlock", pages[k + 1].targetAddr>> >> ELSE <<>>)
                  \o << <<"waitHalt", p>> >>
       IN << <<"page", p>> >> \o steps \o PipelineOrder(pages, k + 1, skipUicr)

\* The requests made so far follow the given order, to its end once the
\* partial write has returned.
FollowsOrder(order) ==
  LET made == [k \in 1..Len(PartialWriteLog) |-> ForPage(PartialWriteLog[k])]
  IN /\ IsPrefix(made, order)
     /\ pp.partial = "true" => made = order

\* C31 as stated: every page of the changed sequence is copied, in order: the
\* first page is uploaded, then for each page the copy is started, the next
\* page uploaded while it runs, and the halt awaited before the next copy.
C31_EveryPageCopied ==
  PpActive => FollowsOrder(PipelineOrder(pp.changed, 1, FALSE))

\* C31: the same order for the pages below 0x10000000; a page at or above it
\* is taken up in its turn and left without a copy, though the step of the
\* page before it has uploaded it.
C31_PipelineOrder ==
  PpActive => FollowsOrder(PipelineOrder(pp.changed, 1, TRUE))

\* C31 witness: a partial write of three pages has returned, all three copied.
C31_Witness ==
  /\ PpActive /\ pp.partial = "true" /\ Len(pp.changed) = 3
  /\ Len(PpOps("runFlash")) = 3 /\ Len(PpOps("waitHalt")) = 3
  /\ Len(PpOps("writeBlock")) = 3

\* C32: the copy of a page reads the slot the page was last uploaded to;
\* successive copies read different slots, the slot following the parity of
\* the page index; the upload made while a copy runs goes to the other slot.
C32_SlotsAlternate ==
  PpActive =>
    \A k \in 1..Len(pp.log) :
      pp.log[k].op = "runFlash" =>
        LET copy == pp.log[k]
            uploads == {j \in 1..(k - 1) :
                          pp.log[j].op = "writeBlock" /\ pp.log[j].a = copy.b}
            copies == {j \in 1..(k - 1) : pp.log[j].op = "runFlash"}
            MaxOf(S) == CHOOSE j \in S : \A h \in S : h <= j
        IN /\ uploads # {}
           /\ pp.log[MaxOf(uploads)].b = copy.a
           /\ copies # {} => pp.log[MaxOf(copies)].b # copy.b
           /\ \E j \in 1..(k - 1) :
                /\ pp.log[j] = PpEntry("page", copy.a, pp.log[j].b)
                /\ copy.b = 1 - (pp.log[j].b % 2)
           /\ (k < Len(pp.log) /\ pp.log[k + 1].op = "writeBlock") =>
                pp.log[k + 1].a # copy.b

\* C32 witness: three pages were copied, from slot 1, slot 0 and slot 1.
C32_Witness ==
  /\ PpActive /\ Len(PpOps("runFlash")) = 3
  /\ PpOps("runFlash")[1].b = 1 /\ PpOps("runFlash")[2].b = 0
  /\ PpOps("runFlash")[3].b = 1

(***************************************************************************)
(* DAPWrapper.readBlockAsync and readBlockCore, one call.  Addresses and   *)
(* lengths are counted in 32-bit words (a quarter of the byte values of    *)
(* the code, which are all multiples of 4 for a word-aligned address), so  *)
(* that the whole 32-bit address space can be represented.  JavaScript's   *)
(* bitwise operators work on the signed 32-bit value of their operands.    *)
(***************************************************************************)

\* Chunks of one readBlockAsync call that are followed.
MaxChunks == 4

\* The words of a burst of readBlockCore.
BurstWords == 15

\* ToInt32 of a byte value, in words: 2^30 words are 2^32 bytes.
ToInt32(x) == ((x + 2^29) % 2^30) - 2^29

\* `nextptr &= ~(this.pageSize - 1)` for a page size that is a power of two.
AndNotPageMask(x, size) == ToInt32(x) - (ToInt32(x) % size)

\* Math.ceil(words / 15).
CeilDiv(a, b) == IF a <= 0 THEN 0 ELSE (a + b - 1) \div b

\* dataAddr (0x20002000), the address two words below the page boundary
\* that follows it, and the system control block (0xE000ED00 = 14 * 2^28 +
\* 0xED00), in words.
RbAddrs == {536879104 \div 4, (536879104 \div 4) + 254, 14 * 2^26 + (60672 \div 4)}
RbWords == {0, 1, 2, 3, 16, 30, 45, 258, 300}
RbPageSizes == {1024 \div 4, 4096 \div 4}

\* `let lastSize = words % 15; if (lastSize === 0) lastSize = 15`.
LastSize(words) == IF words % BurstWords = 0 THEN BurstWords ELSE words % BurstWords

\* `i === blocks.length - 1 ? lastSize : 15`, blocks holding the bursts made
\* so far in this call of readBlockCore.
BurstSize(i, blocks, words) ==
  IF i = Len(blocks) - 1 THEN LastSize(words) ELSE BurstWords

RbChunk(w) == w.chunks[Len(w.chunks)]

\* readBlockAsync's loop from w.ptr up to the first await of readBlockCore, or
\* to its return: bufferConcat(bufs).subarray(0, words * 4).
RbNextChunk(w) ==
  IF w.ptr < w.end
  THEN IF Len(w.chunks) >= MaxChunks THEN [w EXCEPT !.pc = "cut"]
       ELSE LET next == IF w.ptr = w.addr
                        THEN AndNotPageMask(w.ptr + w.pageSize, w.pageSize)
                        ELSE w.ptr + w.pageSize
                len == Min(next - w.ptr, w.end - w.ptr)
            IN [w EXCEPT !.nextptr = next,
                         !.chunks = Append(@, [ptr |-> w.ptr, words |-> ToInt32(len),
                                               bursts |-> <<>>]),
                         !.i = 0, !.got = 0, !.pc = "setup"]
  ELSE [w EXCEPT !.pc = "done", !.result = Min(w.total, w.words)]

\* readBlockCore's loop from burst index w.i up to its next await; after the
\* last burst bufferConcat(blocks).subarray(0, words * 4) is returned and
\* readBlockAsync goes on with `ptr = nextptr`.
RbBurstLoop(w) ==
  LET cw == RbChunk(w).words
  IN IF w.i < CeilDiv(cw, BurstWords)
     THEN [w EXCEPT !.pc = "burst", !.cnt = BurstSize(w.i, RbChunk(w).bursts, cw)]
     ELSE RbNextChunk([w EXCEPT !.bufs = Append(@, Min(w.got, cw)),
                                !.total = @ + Min(w.got, cw),
                                !.ptr = w.nextptr])

RbInit ==
  /\ NoFlash
  /\ wb = WbIdle
  /\ rr = Idle /\ rm = Idle /\ wh = Idle /\ ex = Idle /\ rs = Idle /\ dw = Idle
  /\ pp = Idle /\ rl = Idle /\ te = Idle /\ cn = Idle /\ wt = Idle /\ df = Idle
  /\ ci = Idle /\ sl = Idle
  /\ \E addr \in RbAddrs, words \in RbWords, size \in RbPageSizes :
       bk = [pc |-> "ready", addr |-> addr, words |-> words, pageSize |-> size,
             end |-> 0, ptr |-> 0, nextptr |-> 0, chunks |-> <<>>, bufs |-> <<>>,
             total |-> 0, i |-> 0, cnt |-> 0, got |-> 0, result |-> -1]

\* readBlockAsync(addr, words) is called.
RbCall ==
  /\ bk.pc = "ready"
  /\ bk' = RbNextChunk([bk EXCEPT !.end = bk.addr + bk.words, !.ptr = bk.addr])
  /\ UNCHANGED <<coreVars, wb, rr, rm, wh, ex, rs, dw, pp, rl, te, cn, wt, df, ci, sl>>

\* The writeAP of CSW and of TAR (the chunk's address) have settled.
RbSetupDone ==
  /\ bk.pc = "setup"
  /\ bk' = RbBurstLoop(bk)
  /\ UNCHANGED <<coreVars, wb, rr, rm, wh, ex, rs, dw, pp, rl, te, cn, wt, df, ci, sl>>

\* readRegRepeat(DRW, cnt) returns cnt words.
RbBurstDone ==
  /\ bk.pc = "burst"
  /\ bk' = RbBurstLoop([bk EXCEPT !.chunks[Len(bk.chunks)].bursts = Append(@, bk.cnt),
                                  !.got = @ + bk.cnt, !.i = @ + 1])
  /\ UNCHANGED <<coreVars, wb, rr, rm, wh, ex, rs, dw, pp, rl, te, cn, wt, df, ci, sl>>

RbNext == RbCall \/ RbSetupDone \/ RbBurstDone

RbSpec == RbInit /\ [][RbNext]_vars

RbActive == bk.pc \notin {"idle", "ready"}

C35_BurstSizes ==
  RbActive =>
    \A k \in 1..Len(bk.chunks) :
      LET c == bk.chunks[k]
      IN /\ \A j \in 1..Len(c.bursts) :
              c.bursts[j] = IF j = CeilDiv(c.words, BurstWords)
                            THEN LastSize(c.words) ELSE BurstWords
         /\ (k < Len(bk.chunks) \/ bk.pc = "done") =>
              Len(c.bursts) = CeilDiv(c.words, BurstWords)

(***************************************************************************)
(* DAPWrapper.writeBlockAsync, one call.  data is a Uint32Array: a view of *)
(* byteLength bytes at byteOffset of an ArrayBuffer of bufferBytes bytes,  *)
(* the whole of it when the array owns its buffer.  A write is logged with *)
(* its address and the bytes of the buffer it carries.                     *)
(***************************************************************************)

\* transport.packetSize of the WebUSB transport, and the bytes of a packet
\* that are not data.
PacketSize == 64
PacketHeader == 8

\* loadAddr and dataAddr.
WkAddresses == {536870912, 536879104}

\* Arrays that own their buffer, and views of a part of a larger buffer.
WkData ==
  [bufferBytes : {4, 8, 56, 60, 112, 116, 1024}, byteOffset : {0}, byteLength : {0}]
  \cup [bufferBytes : {64, 1024}, byteOffset : {0, 8}, byteLength : {4, 56}]

\* A Uint32Array made without an offset or a length spans its buffer.
OwnLength(d) == IF d.byteLength = 0 THEN d.bufferBytes ELSE d.byteLength

WkWrite(addr, from, to) == [addr |-> addr, from |-> from, to |-> to]

\* The splitting loop from `while (start !== end)` up to its next await.
WkLoop(w) ==
  IF w.start # w.end THEN [w EXCEPT !.pc = "chunk"] ELSE [w EXCEPT !.pc = "done", !.res = "ok"]

WkInit ==
  /\ NoFlash
  /\ wb = WbIdle
  /\ rr = Idle /\ rm = Idle /\ wh = Idle /\ ex = Idle /\ rs = Idle /\ dw = Idle
  /\ pp = Idle /\ rl = Idle /\ te = Idle /\ cn = Idle /\ wt = Idle /\ df = Idle
  /\ ci = Idle /\ sl = Idle
  /\ \E address \in WkAddresses, d \in WkData :
       bk = [pc |-> "ready", address |-> address,
             data |-> [d EXCEPT !.byteLength = OwnLength(d)],
             payloadSize |-> 0, start |-> 0, end |-> 0, writes |-> <<>>,
             split |-> FALSE, res |-> "none"]

\* writeBlockAsync(address, data) is called.
WkCall ==
  /\ bk.pc = "ready"
  /\ LET payloadSize == PacketSize - PacketHeader
     IN bk' = IF bk.data.bufferBytes > payloadSize
              THEN WkLoop([bk EXCEPT !.payloadSize = payloadSize, !.split = TRUE,
                                     !.start = 0, !.end = payloadSize])
              ELSE [bk EXCEPT !.payloadSize = payloadSize, !.pc = "whole"]
  /\ UNCHANGED <<coreVars, wb, rr, rm, wh, ex, rs, dw, pp, rl, te, cn, wt, df, ci, sl>>

\* writeBlockCore(address + start, data.buffer.slice(start, end)) settles.
WkChunkDone ==
  /\ bk.pc = "chunk"
  /\ \E ok \in BOOLEAN :
       bk' = IF ~ok THEN [bk EXCEPT !.pc = "done", !.res = "throw"]
             ELSE WkLoop([bk EXCEPT
                    !.writes = Append(@, WkWrite(bk.address + bk.start, bk.start,
                                                 Min(bk.end, bk.data.bufferBytes))),
                    !.start = bk.end,
                    !.end = Min(bk.data.bufferBytes, bk.end + bk.payloadSize)])
  /\ UNCHANGED <<coreVars, wb, rr, rm, wh, ex, rs, dw, pp, rl, te, cn, wt, df, ci, sl>>

\* writeBlockCore(address, data) settles: the array as it is.
WkWholeDone ==
  /\ bk.pc = "whole"
  /\ \E ok \in BOOLEAN :
       bk' = IF ~ok THEN [bk EXCEPT !.pc = "done", !.res = "throw"]
             ELSE [bk EXCEPT !.pc = "done", !.res = "ok",
                     !.writes = Append(@, WkWrite(bk.address, bk.data.byteOffset,
                                                  bk.data.byteOffset + bk.data.byteLength))]
  /\ UNCHANGED <<coreVars, wb, rr, rm, wh, ex, rs, dw, pp, rl, te, cn, wt, df, ci, sl>>

WkNext == WkCall \/ WkChunkDone \/ WkWholeDone

WkSpec == WkInit /\ [][WkNext]_vars

WkActive == bk.pc \in {"chunk", "whole", "done"}

ResetFailedFirst == rpc = "rejected" /\ ~timedOut

\* getFlashChecksumsAsync or writeBlockAsync(loadAddr, flashPageBIN) has thrown.
EarlyPfaErrors == {"checksums", "writeBin"}
PfaFailedEarly == faults \cap EarlyPfaErrors # {}

\* The error flashAsync's catch block rethrows in those cases.
EarlyError ==
  IF ResetFailedFirst THEN "reset"
  ELSE IF "checksums" \in faults THEN "checksums" ELSE "writeBin"

\* C37 as stated: when the reset task rejects before the timeout, or the
\* checksum read or the upload of the copy routine throws, no write path is
\* started, partial or full, and flashAsync rejects with that very error.
C37_OnlyTimeoutFallsBack ==
  (pc # "awaitReset" /\ (ResetFailedFirst \/ PfaFailedEarly)) =>
    /\ writes = <<>>
    /\ faRes \in {"none", "throw"}
    /\ pc \in {"faDisconnect", "finallyTail"} => err = EarlyError

\* C37 as amended: no write path is started and flashAsync rejects, with that
\* error unless the disconnectAsync of its finally block throws, and then with
\* the disconnect's error.
C37_EarlyFailureNoWrite ==
  (pc # "awaitReset" /\ (ResetFailedFirst \/ PfaFailedEarly)) =>
    /\ writes = <<>>
    /\ faRes \in {"none", "throw"}
    /\ pc = "faDisconnect" => err = EarlyError
    /\ pc = "finallyTail" =>
         /\ faRes = "throw"
         /\ err = IF "disconnect" \in faults THEN "disconnect" ELSE EarlyError

\* C37 witness: the reset failed twice within the second and flashAsync has
\* rejected with the reset's error, without a write.
C37_Witness ==
  /\ ResetFailedFirst /\ rAttempt = 2
  /\ pc = "finallyTail" /\ faRes = "throw" /\ err = "reset"
  /\ writes = <<>>

\* The reset task is between two of its requests.
ResetRunning ==
  rpc \in {"halt", "readDemcr", "armDemcr", "aircr", "pollReset", "waitHalt", "disarm",
           "reconnect"}

\* C38: the reset abandoned by the timeout does not run beside the fallback
\* full flash, is not running once flashAsync has settled, and the link stays
\* closed after flashAsync's closing disconnect has succeeded.
C38_ResetLeftBehindStops ==
  /\ (pc = "fullFlash" /\ site = "timeout") => ~ResetRunning
  /\ faRes # "none" => ~ResetRunning
  /\ (faRes # "none" /\ "disconnect" \notin faults) => ~linkOpen

\* ----------------------------------------------------------------------------
\* MicrobitWebUSBConnectionImpl (usb.ts) with its calls interleaved: connect(),
\* disconnect() and flash() may be called while earlier calls are still awaiting,
\* the tab may be hidden and shown, and the browser may report the device gone.
\* Each running call is a task; ci.tasks[t].pc names what it awaits.
\* ----------------------------------------------------------------------------

MaxCiTasks == 2        \* calls that may be running at once
MaxCiCalls == 3        \* connect(), disconnect() and flash() calls made by the page
MaxToggles == 2        \* visibilitychange events
MaxCiUnplugs == 1      \* USB disconnect events for the selected device

CiSlots == 1..MaxCiTasks
FreeTask == [op |-> "none", pc |-> "free", after |-> "none", threw |-> FALSE]

\* setStatus, as far as the fields of the connection go.
CiSetStatus(c, newStatus) ==
  [c EXCEPT !.status = newStatus, !.visibilityReconnect = FALSE]

\* The call of task t settles; flash()'s finally block clears `flashing`.
CiSettle(c, t) ==
  [c EXCEPT !.tasks[t] = FreeTask,
            !.flashing = IF c.tasks[t].op = "flash" THEN FALSE ELSE @]

\* disconnect() from its finally block on, and then the code of task t that
\* awaited it: the `.then` of the visibility listener, the rest of
\* flashInternal's finally block, the throw of withEnrichedErrors, or nothing.
CiAfterDisconnect(c, t, after) ==
  LET d == CiSetStatus([c EXCEPT !.connection = FALSE], "DISCONNECTED")
  IN CASE after = "hiddenThen" ->
            CiSettle([d EXCEPT !.visibilityReconnect = TRUE], t)
       [] after = "flashFinally" /\ c.tasks[t].threw ->
            \* the error of flashAsync reaches withEnrichedErrors, whose
            \* disconnect(true) finds no connection
            CiSettle(CiSetStatus([d EXCEPT !.visibilityReconnect = TRUE], "DISCONNECTED"), t)
       [] after = "flashFinally" ->
            CiSettle([d EXCEPT !.visibilityReconnect = TRUE], t)
       [] OTHER -> CiSettle(d, t)

\* disconnect(): the teardown is awaited only if there is a connection.
CiDisconnect(c, t, after) ==
  IF c.connection
  THEN [c EXCEPT !.tasks[t].pc = "teardown", !.tasks[t].after = after]
  ELSE CiAfterDisconnect(c, t, after)

\* The catch block of withEnrichedErrors: `await this.disconnect(true)`, throw.
CiCaught(c, t) == CiDisconnect(c, t, "reject")

\* connectInternal up to its first await (deviceConnectMode Select).
CiConnectInternal(c, t) ==
  IF ~c.connection /\ c.device
    THEN [c EXCEPT !.connection = TRUE, !.tasks[t].pc = "reconnect"]
  ELSE IF ~c.connection THEN [c EXCEPT !.tasks[t].pc = "requestDevice"]
  ELSE [c EXCEPT !.tasks[t].pc = "reconnect"]

\* A call starts in slot t and runs to its first await.
CiStart(c, t, op, after) ==
  LET b == [c EXCEPT !.tasks[t] = [FreeTask EXCEPT !.op = op]]
  IN CASE op = "connect" -> CiConnectInternal(b, t)
       [] op = "flash" -> [b EXCEPT !.flashing = TRUE, !.tasks[t].pc = "stopSerial"]
       [] OTHER -> CiDisconnect(b, t, after)

CiFree(c) == {t \in CiSlots : c.tasks[t].pc = "free"}
CiFirstFree(c) == CHOOSE t \in CiFree(c) : \A u \in CiFree(c) : t <= u

CiInit ==
  /\ NoFlash
  /\ wb = WbIdle
  /\ rr = Idle /\ rm = Idle /\ wh = Idle /\ ex = Idle /\ rs = Idle /\ dw = Idle
  /\ pp = Idle /\ rl = Idle /\ te = Idle /\ cn = Idle /\ wt = Idle /\ df = Idle
  /\ bk = Idle /\ sl = Idle
  /\ ci = [pc |-> "live", status |-> "NO_AUTHORIZED_DEVICE", connection |-> FALSE,
           device |-> FALSE, flashing |-> FALSE, disconnectAfterFlash |-> FALSE,
           visibilityReconnect |-> FALSE, visible |-> TRUE,
           tasks |-> [t \in CiSlots |-> FreeTask],
           calls |-> 0, toggles |-> 0, unplugs |-> 0]

CiRest == <<coreVars, wb, rr, rm, wh, ex, rs, dw, pp, rl, te, cn, wt, df, bk, sl>>

\* The page calls connect(), disconnect() or flash().
CiCall ==
  /\ ci.pc = "live"
  /\ ci.calls < MaxCiCalls
  /\ CiFree(ci) # {}
  /\ \E op \in {"connect", "disconnect", "flash"} :
       ci' = CiStart([ci EXCEPT !.calls = @ + 1], CiFirstFree(ci), op, "resolve")
  /\ UNCHANGED CiRest

\* chooseDevice: navigator.usb.requestDevice settles; on success the device is
\* kept, a DAPWrapper is made for it and reconnectAsync is awaited.
CiRequestDeviceDone ==
  /\ ci.pc = "live"
  /\ \E t \in CiSlots :
       /\ ci.tasks[t].pc = "requestDevice"
       /\ \/ ci' = [ci EXCEPT !.device = TRUE, !.connection = TRUE,
                              !.tasks[t].pc = "reconnect"]
          \/ ci' = CiCaught(ci, t)
  /\ UNCHANGED CiRest

\* withTimeout(connection.reconnectAsync(), 10_000) settles; on success the
\* rest of connectInternal, then of connect() or of flashInternal up to
\* dataSource.
CiReconnectDone ==
  /\ ci.pc = "live"
  /\ \E t \in CiSlots :
       /\ ci.tasks[t].pc = "reconnect"
       /\ \/ LET c == CiSetStatus(ci, "CONNECTED")
             IN ci' = IF ci.tasks[t].op = "connect" THEN CiSettle(c, t)
                      ELSE IF ~c.connection THEN CiCaught(c, t)
                      ELSE [c EXCEPT !.tasks[t].pc = "dataSource"]
          \/ ci' = CiCaught(ci, t)
  /\ UNCHANGED CiRest

\* An awaited step of flashInternal settles.  After flashAsync the finally
\* block runs: the disconnect asked for while the tab was hidden, or else the
\* reinstating of serial.
CiStepDone ==
  /\ ci.pc = "live"
  /\ \E t \in CiSlots, ok \in BOOLEAN :
       LET task == ci.tasks[t] IN
       /\ task.pc \in {"stopSerial", "dataSource", "flashAsync", "serialTail"}
       /\ ci' =
            CASE task.pc = "stopSerial" ->
                   IF ok THEN CiConnectInternal(ci, t) ELSE CiCaught(ci, t)
              [] task.pc = "dataSource" ->
                   IF ok THEN [ci EXCEPT !.tasks[t].pc = "flashAsync"] ELSE CiCaught(ci, t)
              [] task.pc = "flashAsync" ->
                   LET c == [ci EXCEPT !.tasks[t].threw = ~ok]
                   IN IF c.disconnectAfterFlash
                      THEN CiDisconnect([c EXCEPT !.disconnectAfterFlash = FALSE], t,
                                        "flashFinally")
                      ELSE [c EXCEPT !.tasks[t].pc = "serialTail"]
              [] OTHER ->
                   IF ok /\ ~task.threw THEN CiSettle(ci, t) ELSE CiCaught(ci, t)
  /\ UNCHANGED CiRest

\* The teardown awaited by disconnect() (stopSerialInternal, disconnectAsync)
\* settles; its error is swallowed and the finally block runs either way.
CiTeardownDone ==
  /\ ci.pc = "live"
  /\ \E t \in CiSlots :
       /\ ci.tasks[t].pc = "teardown"
       /\ ci' = CiAfterDisconnect(ci, t, ci.tasks[t].after)
  /\ UNCHANGED CiRest

\* visibilityChangeListener, the tab being shown.
CiShown(c) ==
  IF c.visibilityReconnect /\ c.status # "CONNECTED"
  THEN LET b == [c EXCEPT !.disconnectAfterFlash = FALSE, !.visibilityReconnect = FALSE]
       IN IF ~c.flashing THEN CiStart(b, CiFirstFree(b), "connect", "resolve") ELSE b
  ELSE c

\* visibilityChangeListener, the tab being hidden (the page is not unloading).
CiHidden(c) ==
  IF c.status = "CONNECTED"
  THEN IF ~c.flashing THEN CiStart(c, CiFirstFree(c), "disconnect", "hiddenThen")
       ELSE [c EXCEPT !.disconnectAfterFlash = TRUE]
  ELSE c

\* The document's visibilityState changes and the listener runs.
CiVisibilityChange ==
  /\ ci.pc = "live"
  /\ ci.toggles < MaxToggles
  /\ CiFree(ci) # {}
  /\ LET c == [ci EXCEPT !.visible = ~@, !.toggles = @ + 1]
     IN ci' = IF c.visible THEN CiShown(c) ELSE CiHidden(c)
  /\ UNCHANGED CiRest

\* handleDisconnect: the browser reports that the selected device is gone.
CiUsbDisconnect ==
  /\ ci.pc = "live"
  /\ ci.device
  /\ ci.unplugs < MaxCiUnplugs
  /\ ci' = CiSetStatus([ci EXCEPT !.connection = FALSE, !.device = FALSE,
                                  !.unplugs = @ + 1], "NO_AUTHORIZED_DEVICE")
  /\ UNCHANGED CiRest

CiNext ==
  \/ CiCall
  \/ CiRequestDeviceDone
  \/ CiReconnectDone
  \/ CiStepDone
  \/ CiTeardownDone
  \/ CiVisibilityChange
  \/ CiUsbDisconnect

CiSpec == CiInit /\ [][CiNext]_vars

CiActive == ci.pc = "live"

\* C39: status is CONNECTED only while a connection object is held, however
\* connect(), disconnect(), flash(), the visibility listener and the USB
\* disconnect handler interleave.
C39_ConnectedHasConnection ==
  (CiActive /\ ci.status = "CONNECTED") => ci.connection

\* ----------------------------------------------------------------------------
\* addedListeners.serialdata (usb.ts): the counter the connection keeps through
\* its overrides of TrackingEventTarget's eventActivated and eventDeactivated.
\* sl has the fields of a TrackingEventTarget for the one type "serialdata",
\* and the counter.
\* ----------------------------------------------------------------------------

MaxSlOps == 4          \* add, remove and dispatch calls on one connection

SerialData == "serialdata"

\* The overrides of MicrobitWebUSBConnectionImpl, as far as the counter goes.
eventActivated(s) == [s EXCEPT !.addedListeners = @ + 1]
eventDeactivated(s) == [s EXCEPT !.addedListeners = @ - 1]

\* The override that the call just logged by the TrackingEventTarget invokes.
SlHook(before, after) ==
  IF Len(after.log) = Len(before.log) THEN after
  ELSE IF after.log[Len(after.log)].call = "eventActivated" THEN eventActivated(after)
  ELSE eventDeactivated(after)

\* flashInternal's finally block and connectInternal: serial is started again
\* if (this.addedListeners.serialdata).
ReinstatesSerial(s) == s.addedListeners # 0

SlInit ==
  /\ NoFlash
  /\ wb = WbIdle
  /\ rr = Idle /\ rm = Idle /\ wh = Idle /\ ex = Idle /\ rs = Idle /\ dw = Idle
  /\ pp = Idle /\ rl = Idle /\ te = Idle /\ cn = Idle /\ wt = Idle /\ df = Idle
  /\ bk = Idle /\ ci = Idle
  /\ sl = [pc |-> "ready", ops |-> 0, listeners |-> <<>>,
           regs |-> [type \in {SerialData} |-> <<>>], keys |-> {}, log |-> <<>>,
           addedListeners |-> 0]

SlRest == <<coreVars, wb, rr, rm, wh, ex, rs, dw, pp, rl, te, cn, wt, df, bk, ci>>

\* addEventListener("serialdata", callback, options).
SlAdd ==
  /\ sl.pc = "ready" /\ sl.ops < MaxSlOps
  /\ \E callback \in TeCallbacks, options \in TeOptions :
       LET registrations == IF SerialData \in sl.keys THEN sl.regs[SerialData] ELSE <<>>
           wasEmpty == Len(registrations) = 0
           registration == Registration(callback, options)
           found == \E k \in 1..Len(registrations) : eq(registrations[k], registration)
           t0 == [sl EXCEPT !.ops = @ + 1,
                            !.listeners = PlatformAdd(@, SerialData, callback, options)]
           t1 == [t0 EXCEPT !.regs[SerialData] = Append(registrations, registration),
                            !.keys = @ \cup {SerialData}]
       IN sl' = IF callback = "null" \/ found THEN t0
                ELSE IF wasEmpty
                  THEN SlHook(t1, TeLogged(t1, "eventActivated", SerialData))
                ELSE t1
  /\ UNCHANGED SlRest

\* removeEventListener("serialdata", callback, options).
SlRemove ==
  /\ sl.pc = "ready" /\ sl.ops < MaxSlOps
  /\ \E callback \in TeCallbacks, options \in TeOptions :
       LET registration == Registration(callback, options)
           registrations == IF SerialData \in sl.keys THEN sl.regs[SerialData] ELSE <<>>
           t0 == [sl EXCEPT !.ops = @ + 1,
                            !.listeners = PlatformRemove(@, SerialData, callback, options)]
       IN sl' = IF callback = "null" THEN t0
                ELSE SlHook(t0, filterRegistrations(t0, SerialData,
                       SelectSeq(registrations, LAMBDA r : ~eq(r, registration))))
  /\ UNCHANGED SlRest

\* dispatchEvent of a serialdata event (serialListener's dispatchTypedEvent).
SlDispatch ==
  /\ sl.pc = "ready" /\ sl.ops < MaxSlOps
  /\ LET registrations == IF SerialData \in sl.keys THEN sl.regs[SerialData] ELSE <<>>
         t0 == [sl EXCEPT !.ops = @ + 1, !.listeners = PlatformDispatch(@, SerialData)]
     IN sl' = SlHook(t0, filterRegistrations(t0, SerialData,
                SelectSeq(registrations, LAMBDA r : ~isOnce(r))))
  /\ UNCHANGED SlRest

SlNext == SlAdd \/ SlRemove \/ SlDispatch

SlSpec == SlInit /\ [][SlNext]_vars

SlActive == sl.pc # "idle"

\* C40: the counter is 0 or 1, and it is non-zero, so that serial is started
\* again after a flash or a connect, exactly when a serialdata listener is
\* registered.
C40_CounterTracksListeners ==
  SlActive =>
    /\ sl.addedListeners \in {0, 1}
    /\ ReinstatesSerial(sl) = (Len(sl.listeners) > 0)
    /\ ReinstatesSerial(sl) = (Len(sl.regs[SerialData]) > 0)

====
